---- MODULE Spec2Model ----
(***************************************************************************)
(* A model of the dense matrix library (the revisions src/matrixlib,       *)
(* src/my_matrix_lib, src/mixins and the first attempt, class Matrise in   *)
(* src/exceptions.py).                                                     *)
(*                                                                         *)
(* Matrix values are records [rows, cols, data] as the constructor builds  *)
(* them; data is the list of row lists.  A call either returns a value or  *)
(* raises: both outcomes are a result record [ok, err, axis, val].         *)
(* Python floats produced by 1/determinant are modelled as exact reduced   *)
(* fractions [num, den].                                                   *)
(***************************************************************************)
EXTENDS Integers, Sequences, FiniteSets, TLC

VARIABLES
    pc,       \* the operation applied last ("init" before any call)
    recv,     \* the receiver of the call (self), or the constructor's input
    other,    \* the second operand of a binary operation
    args,     \* the scalar arguments of the call (indices, factor, exponent)
    res,      \* the outcome of the call: a value returned or an error raised
    store,    \* heap: the row lists (list id -> entries)
    objs,     \* heap: the Matrix objects (object id -> rows, cols, row list ids)
    handles,  \* the program's variables, each bound to an object id
    ext,      \* the caller's nested list handed to the constructor (row list ids)
    steps     \* the number of calls made on the heap

vars == <<pc, recv, other, args, res, store, objs, handles, ext, steps>>

(***************************************************************************)
(* Bounds of the model.                                                    *)
(***************************************************************************)
MaxDim == 2

Dims == 1..MaxDim

\* entries of the constructor's input lists
CtorVals == {0, 1}

(***************************************************************************)
(* Outcomes of a call.                                                     *)
(***************************************************************************)
Ok(v) == [ok |-> TRUE, err |-> "None", axis |-> "", val |-> v]

Raise(kind, ax) == [ok |-> FALSE, err |-> kind, axis |-> ax, val |-> 0]

NoArgs == [h |-> 0, i |-> 0, j |-> 0, k |-> 0]

NoRes == Raise("NotCalled", "")

\* a placeholder operand for the specifications that do not use one
NoMatrix == [rows |-> 0, cols |-> 0, data |-> <<>>]

\* the seven kinds of the error taxonomy (classes deriving from MatrixError)
MatrixErrorKinds ==
    {"InvalidDimensions", "NotSquare", "SingularMatrix", "IndexOutOfBounds",
     "InvalidData", "InvalidShape", "InvalidValue"}

(***************************************************************************)
(* Python values handed to the constructor: an object that is a list or    *)
(* not; the items of a list are again lists (of scalars) or not.           *)
(***************************************************************************)
NotAList == [isList |-> FALSE, items |-> <<>>]

PyList(items) == [isList |-> TRUE, items |-> items]

SeqsUpTo(S, n) == UNION {[1..k -> S] : k \in 0..n}

PyRows == {NotAList} \cup {PyList(r) : r \in SeqsUpTo(CtorVals, MaxDim)}

PyInputs == {NotAList} \cup {PyList(rs) : rs \in SeqsUpTo(PyRows, MaxDim)}

\* the nested list [[...], ...] for a sequence of rows
AsPyList(rowseq) == PyList([r \in 1..Len(rowseq) |-> PyList(rowseq[r])])

(***************************************************************************)
(* Matrix.__init__                                                         *)
(***************************************************************************)
Matrix__init__(data) ==
    IF \/ ~data.isList
       \/ data.items = <<>>
       \/ \E r \in 1..Len(data.items) : ~data.items[r].isList
    THEN Raise("InvalidData", "")
    ELSE IF \E r \in 1..Len(data.items) :
                Len(data.items[r].items) # Len(data.items[1].items)
    THEN Raise("InvalidShape", "")
    ELSE Ok([rows |-> Len(data.items),
             cols |-> Len(data.items[1].items),
             data |-> [r \in 1..Len(data.items) |-> data.items[r].items]])

\* cls([[...] for ...]): the constructor applied to a list of row lists
New(rowseq) == Matrix__init__(AsPyList(rowseq))

(***************************************************************************)
(* Initial states: the inputs of one call, nothing called yet.             *)
(***************************************************************************)
InitRest ==
    /\ pc = "init"
    /\ args = NoArgs
    /\ res = NoRes
    /\ store = <<>>
    /\ objs = <<>>
    /\ handles = <<>>
    /\ ext = <<>>
    /\ steps = 0

HeapUnchanged == UNCHANGED <<store, objs, handles, ext, steps>>

(***************************************************************************)
(* Construction: Matrix(data) for every nested-list (or other) input.      *)
(***************************************************************************)
Construct ==
    /\ pc = "init"
    /\ pc' = "Matrix"
    /\ args' = NoArgs
    /\ res' = Matrix__init__(recv)
    /\ UNCHANGED <<recv, other>>
    /\ HeapUnchanged

InitCtor ==
    /\ recv \in PyInputs
    /\ other = NoMatrix
    /\ InitRest

NextCtor == Construct

SpecCtor == InitCtor /\ [][NextCtor]_vars

\* a Matrix value is well formed: at least one row, at least one column,
\* every row with exactly cols entries
WellFormed(M) ==
    /\ M.rows >= 1
    /\ M.cols >= 1
    /\ Len(M.data) = M.rows
    /\ \A r \in 1..M.rows : Len(M.data[r]) = M.cols

\* the constructor's input is a non-empty list whose items are all lists
IsListOfLists(data) ==
    /\ data.isList
    /\ data.items # <<>>
    /\ \A r \in 1..Len(data.items) : data.items[r].isList

\* C5: every Matrix the constructor accepts has rows >= 1, cols >= 1 and cols
\* entries in each row, and the constructor rejects every other input:
\* non-list or empty input and non-list rows with InvalidData, ragged rows
\* with InvalidShape.
C5_ConstructorKeepsShapeInvariant ==
    pc = "Matrix" =>
        /\ res.ok => WellFormed(res.val)
        /\ ~IsListOfLists(recv) => res.err = "InvalidData"
        /\ (/\ IsListOfLists(recv)
            /\ \E r \in 1..Len(recv.items) :
                   Len(recv.items[r].items) # Len(recv.items[1].items))
           => res.err = "InvalidShape"

(***************************************************************************)
(* Matrix values the constructor accepts: m x n lists of entries.          *)
(***************************************************************************)
Mat(d) == [rows |-> Len(d), cols |-> Len(d[1]), data |-> d]

\* M is one of the m x n matrices with entries in vals, m and n at most maxDim
IsMatrixOver(M, maxDim, vals) ==
    \E m \in 1..maxDim, n \in 1..maxDim :
        \E d \in [1..m -> [1..n -> vals]] : M = Mat(d)

IsSquare(M) == M.rows = M.cols

(***************************************************************************)
(* Helpers of the translation.                                             *)
(***************************************************************************)
RECURSIVE SumSeq(_)
\* sum(...) over a list of integers
SumSeq(s) == IF s = <<>> THEN 0 ELSE s[1] + SumSeq(Tail(s))

RECURSIVE SortedSeq(_)
\* sorted(list(set(...)))
SortedSeq(S) ==
    IF S = {} THEN <<>>
    ELSE LET lo == CHOOSE x \in S : \A y \in S : x <= y
         IN  <<lo>> \o SortedSeq(S \ {lo})

SeqSet(s) == {s[k] : k \in 1..Len(s)}

\* [x for x in range(1, n+1) if x not in excluded]
RangeWithout(n, excluded) == SortedSeq((1..n) \ SeqSet(excluded))

\* the first outcome of a list of outcomes that is an error (evaluation order)
FirstError(rs) ==
    rs[CHOOSE k \in 1..Len(rs) : ~rs[k].ok /\ \A l \in 1..(k-1) : rs[l].ok]

AllOk(rs) == \A k \in 1..Len(rs) : rs[k].ok

\* the outcome r of a call used by the code that follows it: an exception
\* propagates, a returned value is handed on
Then(r, F(_)) == IF r.ok THEN F(r.val) ELSE r

\* the outcomes rs of the calls a comprehension makes in order: the first
\* exception propagates, otherwise the list of values is handed on
AllThen(rs, F(_)) ==
    IF AllOk(rs) THEN F([k \in 1..Len(rs) |-> rs[k].val]) ELSE FirstError(rs)

\* (-1)**n for n >= 0
MinusOnePow(n) == IF n % 2 = 0 THEN 1 ELSE -1

(***************************************************************************)
(* DunderMixin.__getitem__ with two integers: M[i, j], 1-based.            *)
(***************************************************************************)
getitem(M, i, j) ==
    IF i \notin 1..M.rows THEN Raise("IndexOutOfBounds", "row")
    ELSE IF j \notin 1..M.cols THEN Raise("IndexOutOfBounds", "col")
    ELSE Ok(M.data[i][j])

(***************************************************************************)
(* UnaryMatrixOperationsMixin (src/my_matrix_lib): submatrix, minor,       *)
(* first_minor, cofactor, determinant.                                     *)
(***************************************************************************)
submatrix(M, rows, cols) ==
    IF rows = <<>> THEN Raise("InvalidData", "")
    ELSE IF cols = <<>> THEN Raise("InvalidData", "")
    ELSE IF \E k \in 1..Len(rows) : rows[k] - 1 \notin 0..(M.rows - 1)
    THEN Raise("IndexOutOfBounds", "row")
    ELSE IF \E k \in 1..Len(cols) : cols[k] - 1 \notin 0..(M.cols - 1)
    THEN Raise("IndexOutOfBounds", "col")
    ELSE LET rs == SortedSeq(SeqSet(rows))
             cs == SortedSeq(SeqSet(cols))
         IN  New([r \in 1..Len(rs) |->
                    [c \in 1..Len(cs) |-> getitem(M, rs[r], cs[c]).val]])

RECURSIVE determinant(_)

minor(M, rows, cols) ==
    IF rows = <<>> THEN Raise("InvalidData", "")
    ELSE IF cols = <<>> THEN Raise("InvalidData", "")
    ELSE IF \E k \in 1..Len(rows) : rows[k] - 1 \notin 0..(M.rows - 1)
    THEN Raise("IndexOutOfBounds", "row")
    ELSE IF \E k \in 1..Len(cols) : cols[k] - 1 \notin 0..(M.cols - 1)
    THEN Raise("IndexOutOfBounds", "col")
    ELSE Then(submatrix(M, RangeWithout(M.rows, rows), RangeWithout(M.cols, cols)),
              LAMBDA sub : determinant(sub))

first_minor(M, i, j) == minor(M, <<i>>, <<j>>)

cofactorUnsigned(M, i, j) == first_minor(M, i, j)

cofactor(M, i, j) ==
    Then(first_minor(M, i, j), LAMBDA m : Ok(MinusOnePow(i + j) * m))

determinant(M) ==
    IF ~IsSquare(M) THEN Raise("NotSquare", "")
    ELSE IF M.rows = 1 THEN getitem(M, 1, 1)
    ELSE AllThen([j \in 1..M.cols |->
                     Then(getitem(M, 1, j), LAMBDA a :
                     Then(cofactor(M, 1, j), LAMBDA c : Ok(a * c)))],
                 LAMBDA terms : Ok(SumSeq(terms)))

(***************************************************************************)
(* determinant() on every matrix of at most MaxDetDim rows and columns.    *)
(***************************************************************************)
MaxDetDim == 3

DetVals == {-1, 2}

\* literal scenario 1 of the specification
Scenario1 == [rows |-> 2, cols |-> 2, data |-> <<<<1, 2>>, <<3, 4>>>>]

Determinant ==
    /\ pc = "init"
    /\ pc' = "determinant"
    /\ args' = NoArgs
    /\ res' = determinant(recv)
    /\ UNCHANGED <<recv, other>>
    /\ HeapUnchanged

InitDet ==
    /\ \/ IsMatrixOver(recv, MaxDetDim, DetVals)
       \/ recv = Scenario1
    /\ other = NoMatrix
    /\ InitRest

NextDet == Determinant

SpecDet == InitDet /\ [][NextDet]_vars

\* the permutations of 1..n, their sign and the permutation-sum determinant
PermsOf(n) ==
    {p \in [1..n -> 1..n] : \A a, b \in 1..n : p[a] = p[b] => a = b}

Inversions(p, n) == Cardinality({<<a, b>> \in (1..n) \X (1..n) : a < b /\ p[a] > p[b]})

\* for each size n, the permutations of 1..n paired with their sign
SignedPerms ==
    [n \in 1..(MaxDetDim + 1) |->
        {<<p, MinusOnePow(Inversions(p, n))>> : p \in PermsOf(n)}]

RECURSIVE ProdSeq(_)
ProdSeq(s) == IF s = <<>> THEN 1 ELSE s[1] * ProdSeq(Tail(s))

RECURSIVE SumOver(_, _)
SumOver(S, f) ==
    IF S = {} THEN 0
    ELSE LET x == CHOOSE y \in S : TRUE IN f[x] + SumOver(S \ {x}, f)

Leibniz(M) ==
    LET n == M.rows
        P == SignedPerms[n]
    IN  SumOver(P, [sp \in P |->
            sp[2] * ProdSeq([r \in 1..n |-> M.data[r][sp[1][r]]])])

\* C2: on a square integer matrix of size 1x1 up to 3x3 determinant() returns
\* the permutation-sum determinant (the sole entry for 1x1; -2 for
\* [[1,2],[3,4]]); on a non-square matrix it raises NotSquare.
C2_DeterminantIsLeibniz ==
    pc = "determinant" =>
        /\ IsSquare(recv) => res.ok /\ res.val = Leibniz(recv)
        /\ (IsSquare(recv) /\ recv.rows = 1) => res.val = recv.data[1][1]
        /\ recv = Scenario1 => res.val = -2
        /\ ~IsSquare(recv) => ~res.ok /\ res.err = "NotSquare"

C2_Witness ==
    /\ pc = "determinant"
    /\ recv.rows = 3
    /\ recv.cols = 3
    /\ res.ok
    /\ res.val # 0

(***************************************************************************)
(* Floats: the quotient 1/determinant and everything computed from it, as  *)
(* exact fractions in lowest terms with a positive denominator.            *)
(***************************************************************************)
Abs(x) == IF x < 0 THEN -x ELSE x

RECURSIVE Gcd(_, _)
Gcd(a, b) == IF b = 0 THEN a ELSE Gcd(b, a % b)

Frac(n, d) ==
    LET g == Gcd(Abs(n), Abs(d))
        s == IF d < 0 THEN -1 ELSE 1
    IN  [num |-> (s * n) \div g, den |-> (s * d) \div g]

\* float(n) for an integer n
FracOf(n) == [num |-> n, den |-> 1]

FracMul(a, b) == Frac(a.num * b.num, a.den * b.den)

FracAdd(a, b) == Frac(a.num * b.den + b.num * a.den, a.den * b.den)

RECURSIVE FracSum(_)
FracSum(s) == IF s = <<>> THEN FracOf(0) ELSE FracAdd(s[1], FracSum(Tail(s)))

\* an integer matrix with its entries promoted to floats (int * float)
ToFloat(M) ==
    [rows |-> M.rows, cols |-> M.cols,
     data |-> [r \in 1..M.rows |-> [c \in 1..M.cols |-> FracOf(M.data[r][c])]]]

\* abs(x) < 1e-8 for an integer x
BelowTolerance(x) == x = 0

(***************************************************************************)
(* MatrixFactoryMixin.identity                                             *)
(***************************************************************************)
\* an identity with 1 in every entry
identity_all_ones(n) ==
    IF n <= 0 THEN Raise("InvalidValue", "")
    ELSE New([i \in 1..n |-> [j \in 1..n |-> 1]])

identity(n) ==
    IF n <= 0 THEN Raise("InvalidValue", "")
    ELSE New([i \in 1..n |-> [j \in 1..n |-> IF i = j THEN 1 ELSE 0]])

\* identity(n) compared with or multiplied by floats: 1 == 1.0, 0 == 0.0
identity_float(n) == ToFloat(identity(n).val)

(***************************************************************************)
(* src/my_matrix_lib: __call__, transpose, scalar_multiplication,          *)
(* cofactor_matrix, adjugate_matrix, inverse_matrix.                       *)
(***************************************************************************)
\* M(i, j): the 0-based shorthand
call(M, i, j) == getitem(M, i + 1, j + 1)

\* a transpose that keeps the rows as rows
transpose_rows_kept(M) ==
    New([r \in 1..M.rows |-> [c \in 1..M.cols |-> getitem(M, r, c).val]])

transpose(M) ==
    New([c \in 1..M.cols |-> [r \in 1..M.rows |-> getitem(M, r, c).val]])

\* M * s for a float s: every entry multiplied by s
scalar_multiplication_float(M, s) ==
    New([r \in 1..M.rows |->
           [c \in 1..M.cols |-> FracMul(s, FracOf(call(M, r - 1, c - 1).val))]])

cofactor_matrix(M) ==
    AllThen([k \in 1..(M.rows * M.cols) |->
                cofactor(M, ((k - 1) \div M.cols) + 1, ((k - 1) % M.cols) + 1)],
            LAMBDA cs : New([i \in 1..M.rows |->
                               [j \in 1..M.cols |-> cs[(i - 1) * M.cols + j]]]))

adjugate_matrix(M) ==
    Then(cofactor_matrix(M), LAMBDA co : transpose(co))

inverse_matrix_no_check(M) ==
    Then(determinant(M), LAMBDA det :
        IF BelowTolerance(det)
        THEN Ok(ToFloat([rows |-> M.rows, cols |-> M.cols,
                         data |-> [r \in 1..M.rows |-> [c \in 1..M.cols |-> 0]]]))
        ELSE Then(adjugate_matrix(M), LAMBDA adj :
                 scalar_multiplication_float(adj, Frac(1, det))))

inverse_matrix(M) ==
    Then(determinant(M), LAMBDA det :
        IF BelowTolerance(det) THEN Raise("SingularMatrix", "")
        ELSE Then(adjugate_matrix(M), LAMBDA adj :
                 scalar_multiplication_float(adj, Frac(1, det))))

(***************************************************************************)
(* src/matrixlib: matrix_multiplication and matrix_exponentiation, on      *)
(* integer entries and on floats.                                          *)
(***************************************************************************)
\* an operand that is no Matrix (a number, a list)
NotAMatrix == [rows |-> -1, cols |-> -1, data |-> <<>>]

\* isinstance(x, type(self))
IsInstance(x) == x # NotAMatrix

matrix_multiplication(A, B) ==
    IF ~IsInstance(B) THEN Raise("InvalidData", "")
    ELSE IF A.cols # B.rows THEN Raise("InvalidDimensions", "")
    ELSE New([i \in 1..A.rows |->
                [j \in 1..B.cols |->
                    SumSeq([r \in 1..A.cols |->
                              getitem(A, i, r).val * getitem(B, r, j).val])]])

matrix_multiplication_float(A, B) ==
    IF ~IsInstance(B) THEN Raise("InvalidData", "")
    ELSE IF A.cols # B.rows THEN Raise("InvalidDimensions", "")
    ELSE New([i \in 1..A.rows |->
                [j \in 1..B.cols |->
                    FracSum([r \in 1..A.cols |->
                               FracMul(getitem(A, i, r).val, getitem(B, r, j).val)])]])

RECURSIVE matrix_exponentiation_float(_, _)
\* the recursion on the inverse: the exponent is positive here
matrix_exponentiation_float(F, exponent) ==
    IF ~IsSquare(F) THEN Raise("NotSquare", "")
    ELSE IF exponent = 0 THEN Ok(identity_float(F.rows))
    ELSE Then(matrix_exponentiation_float(F, exponent - 1),
              LAMBDA p : matrix_multiplication_float(p, F))

RECURSIVE matrix_exponentiation(_, _)
matrix_exponentiation(M, exponent) ==
    IF ~IsSquare(M) THEN Raise("NotSquare", "")
    ELSE IF exponent < 0
    THEN Then(inverse_matrix(M),
              LAMBDA inv : matrix_exponentiation_float(inv, -exponent))
    ELSE IF exponent = 0 THEN identity(M.rows)
    ELSE Then(matrix_exponentiation(M, exponent - 1),
              LAMBDA p : matrix_multiplication(p, M))

\* DunderMixin.__invert__: ~A
invert(M) == inverse_matrix(M)

\* DunderMixin.__truediv__ with a Matrix divisor: A / B = A * B.inv
truediv(A, B) ==
    Then(inverse_matrix(B),
         LAMBDA inv : matrix_multiplication_float(ToFloat(A), inv))

\* DunderMixin.__pow__: A ** k
pow(M, exponent) == matrix_exponentiation(M, exponent)

(***************************************************************************)
(* inverse, ~A, A / B and A ** k on every matrix of at most MaxDim rows    *)
(* and columns.                                                            *)
(***************************************************************************)
InvVals == {0, 2}

MaxExp == 2

\* the all-ones matrix of m rows and n columns (a left operand of A / B)
OnesMatrix(m, n) ==
    [rows |-> m, cols |-> n, data |-> [r \in 1..m |-> [c \in 1..n |-> 1]]]

Inverse ==
    /\ pc = "init"
    /\ pc' = "inverse"
    /\ args' = NoArgs
    /\ res' = inverse_matrix(recv)
    /\ UNCHANGED <<recv, other>>
    /\ HeapUnchanged

Invert ==
    /\ pc = "init"
    /\ pc' = "invert"
    /\ args' = NoArgs
    /\ res' = invert(recv)
    /\ UNCHANGED <<recv, other>>
    /\ HeapUnchanged

\* other / recv
TrueDiv ==
    /\ pc = "init"
    /\ \E m \in Dims, n \in Dims :
          /\ other' = OnesMatrix(m, n)
          /\ res' = truediv(OnesMatrix(m, n), recv)
    /\ pc' = "truediv"
    /\ args' = NoArgs
    /\ UNCHANGED recv
    /\ HeapUnchanged

Pow ==
    /\ pc = "init"
    /\ \E e \in (-MaxExp)..MaxExp :
          /\ args' = [NoArgs EXCEPT !.k = e]
          /\ res' = pow(recv, e)
    /\ pc' = "pow"
    /\ UNCHANGED <<recv, other>>
    /\ HeapUnchanged

InitInv ==
    /\ IsMatrixOver(recv, MaxDim, InvVals)
    /\ other = NoMatrix
    /\ InitRest

NextInv == Inverse \/ Invert \/ TrueDiv \/ Pow

SpecInv == InitInv /\ [][NextInv]_vars

\* C3: for every square A of size n >= 1 (1x1 included) with a determinant
\* of magnitude at least the tolerance, inverse(A) returns
\* adjugate(A) * (1/determinant(A)), and multiply(A, inverse(A)) is identity(n).
C3_InverseOfEveryNonSingular ==
    (pc = "inverse" /\ IsSquare(recv) /\ ~BelowTolerance(Leibniz(recv))) =>
        /\ res.ok
        /\ res.val = scalar_multiplication_float(
                         adjugate_matrix(recv).val, Frac(1, Leibniz(recv))).val
        /\ matrix_multiplication_float(ToFloat(recv), res.val).val
               = identity_float(recv.rows)

\* C4: inverse() of a square matrix with determinant 0 raises SingularMatrix
\* and returns no matrix; ~A, A / B and A ** k with k < 0 raise the same error.
C4_SingularRaises ==
    (/\ IsSquare(recv)
     /\ Leibniz(recv) = 0
     /\ \/ pc \in {"inverse", "invert", "truediv"}
        \/ pc = "pow" /\ args.k < 0)
    => (~res.ok /\ res.err = "SingularMatrix")

C4_Witness ==
    /\ pc = "pow"
    /\ args.k < 0
    /\ recv.data = <<<<2, 0>>, <<2, 0>>>>
    /\ res.err = "SingularMatrix"

\* the part of C3 the code satisfies: sizes n >= 2
C3_HoldsFromSizeTwo ==
    (pc = "inverse" /\ IsSquare(recv) /\ recv.rows >= 2
        /\ ~BelowTolerance(Leibniz(recv))) =>
        /\ res.ok
        /\ matrix_multiplication_float(ToFloat(recv), res.val).val
               = identity_float(recv.rows)

(***************************************************************************)
(* The binary operations of each revision.                                 *)
(***************************************************************************)
\* src/mixins: matrix_multiplication (the column range of the result is
\* taken from self.cols)
matrix_multiplication_mixins(A, B) ==
    IF ~IsInstance(B) THEN Raise("InvalidData", "")
    ELSE IF A.cols # B.rows THEN Raise("InvalidDimensions", "")
    ELSE LET rows == A.rows
             cols == A.cols
             cell(i, j) ==
                 AllThen([r \in 1..cols |->
                             Then(getitem(A, i, r), LAMBDA a :
                             Then(getitem(B, r, j), LAMBDA b : Ok(a * b)))],
                         LAMBDA terms : Ok(SumSeq(terms)))
         IN  AllThen([k \in 1..(rows * cols) |->
                         cell(((k - 1) \div cols) + 1, ((k - 1) % cols) + 1)],
                     LAMBDA cells : New([i \in 1..rows |->
                                           [j \in 1..cols |-> cells[(i - 1) * cols + j]]]))

\* src/my_matrix_lib/core.py: _have_same_size (true when the sizes differ)
have_same_size_mylib(A, B) == A.rows # B.rows \/ A.cols # B.cols

\* src/my_matrix_lib: other.rows on an operand that is no Matrix raises
\* AttributeError
matrix_multiplication_mylib(A, B) ==
    IF ~IsInstance(B) THEN Raise("AttributeError", "")
    ELSE IF A.cols # B.rows THEN Raise("InvalidDimensions", "")
    ELSE New([i \in 1..A.rows |->
                [j \in 1..B.cols |->
                    SumSeq([r \in 1..A.cols |->
                              call(A, i - 1, r - 1).val * call(B, r - 1, j - 1).val])]])

matrix_addition_mylib(A, B) ==
    IF ~IsInstance(B) THEN Raise("AttributeError", "")
    ELSE IF have_same_size_mylib(A, B) THEN Raise("InvalidDimensions", "")
    ELSE New([r \in 1..A.rows |->
                [c \in 1..A.cols |->
                    call(A, r - 1, c - 1).val + call(B, r - 1, c - 1).val]])

hadamard_product_mylib(A, B) ==
    IF ~IsInstance(B) THEN Raise("AttributeError", "")
    ELSE IF have_same_size_mylib(A, B) THEN Raise("InvalidDimensions", "")
    ELSE New([r \in 1..A.rows |->
                [c \in 1..A.cols |->
                    call(A, r - 1, c - 1).val * call(B, r - 1, c - 1).val]])

\* src/matrixlib: HelperMixin and the elementwise operations
have_same_size(A, B) == A.rows = B.rows /\ A.cols = B.cols

validate_other_type(B) ==
    IF ~IsInstance(B) THEN Raise("InvalidData", "") ELSE Ok(0)

validate_same_size(A, B) ==
    IF ~have_same_size(A, B) THEN Raise("InvalidDimensions", "") ELSE Ok(0)

matrix_addition(A, B) ==
    IF ~validate_other_type(B).ok THEN validate_other_type(B)
    ELSE IF ~validate_same_size(A, B).ok THEN validate_same_size(A, B)
    ELSE New([r \in 1..A.rows |->
                [c \in 1..A.cols |-> getitem(A, r, c).val + getitem(B, r, c).val]])

hadamard_product(A, B) ==
    IF ~validate_other_type(B).ok THEN validate_other_type(B)
    ELSE IF ~validate_same_size(A, B).ok THEN validate_same_size(A, B)
    ELSE New([r \in 1..A.rows |->
                [c \in 1..A.cols |-> getitem(A, r, c).val * getitem(B, r, c).val]])

(***************************************************************************)
(* Every binary operation on every pair of operands of at most MaxDim rows *)
(* and columns; the second operand may be no Matrix at all.                *)
(***************************************************************************)
BinVals == {0, 1, 2}

OtherVals == {1, 2}

MatMul ==
    /\ pc = "init"
    /\ pc' = "mul.matrixlib"
    /\ args' = NoArgs
    /\ res' = matrix_multiplication(recv, other)
    /\ UNCHANGED <<recv, other>>
    /\ HeapUnchanged

MatMulMixins ==
    /\ pc = "init"
    /\ pc' = "mul.mixins"
    /\ args' = NoArgs
    /\ res' = matrix_multiplication_mixins(recv, other)
    /\ UNCHANGED <<recv, other>>
    /\ HeapUnchanged

MatMulMyLib ==
    /\ pc = "init"
    /\ pc' = "mul.my_matrix_lib"
    /\ args' = NoArgs
    /\ res' = matrix_multiplication_mylib(recv, other)
    /\ UNCHANGED <<recv, other>>
    /\ HeapUnchanged

MatAdd ==
    /\ pc = "init"
    /\ pc' = "add.matrixlib"
    /\ args' = NoArgs
    /\ res' = matrix_addition(recv, other)
    /\ UNCHANGED <<recv, other>>
    /\ HeapUnchanged

MatAddMyLib ==
    /\ pc = "init"
    /\ pc' = "add.my_matrix_lib"
    /\ args' = NoArgs
    /\ res' = matrix_addition_mylib(recv, other)
    /\ UNCHANGED <<recv, other>>
    /\ HeapUnchanged

Hadamard ==
    /\ pc = "init"
    /\ pc' = "hadamard.matrixlib"
    /\ args' = NoArgs
    /\ res' = hadamard_product(recv, other)
    /\ UNCHANGED <<recv, other>>
    /\ HeapUnchanged

HadamardMyLib ==
    /\ pc = "init"
    /\ pc' = "hadamard.my_matrix_lib"
    /\ args' = NoArgs
    /\ res' = hadamard_product_mylib(recv, other)
    /\ UNCHANGED <<recv, other>>
    /\ HeapUnchanged

InitBin ==
    /\ IsMatrixOver(recv, MaxDim, BinVals)
    /\ \/ IsMatrixOver(other, MaxDim, OtherVals)
       \/ other = NotAMatrix
    /\ InitRest

NextBin ==
    \/ MatMul \/ MatMulMixins \/ MatMulMyLib
    \/ MatAdd \/ MatAddMyLib
    \/ Hadamard \/ HadamardMyLib

SpecBin == InitBin /\ [][NextBin]_vars

MulOps == {"mul.matrixlib", "mul.mixins", "mul.my_matrix_lib"}

AddOps == {"add.matrixlib", "add.my_matrix_lib"}

HadamardOps == {"hadamard.matrixlib", "hadamard.my_matrix_lib"}

\* the product of an m x n and an n x p matrix, entry by entry
ProductOf(A, B) ==
    [rows |-> A.rows, cols |-> B.cols,
     data |-> [i \in 1..A.rows |->
                 [j \in 1..B.cols |->
                    SumSeq([r \in 1..A.cols |-> A.data[i][r] * B.data[r][j]])]]]

IsIdentity(M) ==
    /\ IsSquare(M)
    /\ \A i, j \in 1..M.rows : M.data[i][j] = (IF i = j THEN 1 ELSE 0)

\* C1: for A of shape m x n and B of shape n x p (m, n, p independent) every
\* revision of matrix_multiplication returns the m x p matrix with entry (i,j)
\* the sum over r of A[i,r]*B[r,j]; in particular identity(n) * B = B.
C1_ProductOfEveryRevision ==
    (pc \in MulOps /\ IsInstance(other) /\ recv.cols = other.rows) =>
        /\ res.ok
        /\ res.val.rows = recv.rows
        /\ res.val.cols = other.cols
        /\ res.val = ProductOf(recv, other)
        /\ IsIdentity(recv) => res.val = other

\* the revision of src/matrixlib alone computes the product
C1_MatrixlibProduct ==
    (pc = "mul.matrixlib" /\ IsInstance(other) /\ recv.cols = other.rows) =>
        (res.ok /\ res.val = ProductOf(recv, other))

\* C8: matrix_addition, matrix_multiplication and hadamard_product raise
\* InvalidDimensions when the shapes are incompatible (add, Hadamard: the
\* shapes differ; multiply: A.cols # B.rows) and InvalidData when the operand
\* is no Matrix; no result is returned.
C8_BinaryOperandErrors ==
    pc \in (MulOps \cup AddOps \cup HadamardOps) =>
        /\ ~IsInstance(other) => (~res.ok /\ res.err = "InvalidData")
        /\ (/\ IsInstance(other)
            /\ pc \in MulOps
            /\ recv.cols # other.rows)
           => (~res.ok /\ res.err = "InvalidDimensions")
        /\ (/\ IsInstance(other)
            /\ pc \in (AddOps \cup HadamardOps)
            /\ <<recv.rows, recv.cols>> # <<other.rows, other.cols>>)
           => (~res.ok /\ res.err = "InvalidDimensions")

\* the revision of src/matrixlib alone raises the two kinds
C8_MatrixlibOperandErrors ==
    pc \in {"mul.matrixlib", "add.matrixlib", "hadamard.matrixlib"} =>
        /\ ~IsInstance(other) => (~res.ok /\ res.err = "InvalidData")
        /\ (IsInstance(other) /\ pc = "mul.matrixlib" /\ recv.cols # other.rows)
           => (~res.ok /\ res.err = "InvalidDimensions")
        /\ (/\ IsInstance(other)
            /\ pc # "mul.matrixlib"
            /\ <<recv.rows, recv.cols>> # <<other.rows, other.cols>>)
           => (~res.ok /\ res.err = "InvalidDimensions")

(***************************************************************************)
(* Elementary row operations.                                              *)
(***************************************************************************)
\* a swap that forgets to move row i into place j
row_switching_one_way(M, i, j) ==
    IF (i - 1) \notin 0..(M.rows - 1) \/ (j - 1) \notin 0..(M.rows - 1)
    THEN Raise("IndexOutOfBounds", "row")
    ELSE New([idx \in 1..M.rows |->
                IF idx = i THEN M.data[j] ELSE M.data[idx]])

\* src/matrixlib ElementaryOperationsMixin.row_switching (the same text in
\* src/my_matrix_lib and src/mixins)
row_switching(M, i, j) ==
    IF (i - 1) \notin 0..(M.rows - 1) \/ (j - 1) \notin 0..(M.rows - 1)
    THEN Raise("IndexOutOfBounds", "row")
    ELSE New([idx \in 1..M.rows |->
                IF idx = j THEN M.data[i]
                ELSE IF idx = i THEN M.data[j]
                ELSE M.data[idx]])

\* row_addition: the row to replace is found by comparing each row's entries
\* with those of row i
row_addition(M, i, j, k) ==
    IF (i - 1) \notin 0..(M.rows - 1) \/ (j - 1) \notin 0..(M.rows - 1)
    THEN Raise("IndexOutOfBounds", "row")
    ELSE New([r \in 1..M.rows |->
                IF M.data[r] = M.data[i]
                THEN [idx \in 1..M.cols |-> M.data[i][idx] + k * M.data[j][idx]]
                ELSE M.data[r]])

\* Matrise.__init__ (no validation)
Matrise(A) == [rows |-> Len(A), cols |-> Len(A[1]), data |-> A]

\* Matrise.RadAddisjon: the rows are enumerated with range(self.n), the
\* number of columns; self.A[i] past the last row raises IndexError
RadAddisjon(M, p, q, k) ==
    IF M.cols > M.rows THEN Raise("IndexError", "")
    ELSE Ok(Matrise([i \in 1..M.cols |->
                IF i = p
                THEN [j \in 1..M.cols |-> M.data[p][j] + k * M.data[q][j]]
                ELSE M.data[i]]))

(***************************************************************************)
(* The row operations on every matrix of at most MaxDim rows and columns,  *)
(* with every index from 0 to MaxDim + 1.                                  *)
(***************************************************************************)
RowVals == {0, 1, 2}

RowFactors == {-1, 0, 2}

RowSwitching ==
    /\ pc = "init"
    /\ \E i \in 0..(MaxDim + 1), j \in 0..(MaxDim + 1) :
          /\ args' = [NoArgs EXCEPT !.i = i, !.j = j]
          /\ res' = row_switching(recv, i, j)
    /\ pc' = "row_switching"
    /\ UNCHANGED <<recv, other>>
    /\ HeapUnchanged

RowAddition ==
    /\ pc = "init"
    /\ \E i \in 0..(MaxDim + 1), j \in 0..(MaxDim + 1), k \in RowFactors :
          /\ args' = [NoArgs EXCEPT !.i = i, !.j = j, !.k = k]
          /\ res' = row_addition(recv, i, j, k)
    /\ pc' = "row_addition"
    /\ UNCHANGED <<recv, other>>
    /\ HeapUnchanged

\* Matrise.RadAddisjon with valid row numbers p and q
RadAddisjonCall ==
    /\ pc = "init"
    /\ \E p \in 1..recv.rows, q \in 1..recv.rows, k \in RowFactors :
          /\ args' = [NoArgs EXCEPT !.i = p, !.j = q, !.k = k]
          /\ res' = RadAddisjon(recv, p, q, k)
    /\ pc' = "RadAddisjon"
    /\ UNCHANGED <<recv, other>>
    /\ HeapUnchanged

InitRow ==
    /\ IsMatrixOver(recv, MaxDim, RowVals)
    /\ other = NoMatrix
    /\ InitRest

NextRow == RowSwitching \/ RowAddition \/ RadAddisjonCall

SpecRow == InitRow /\ [][NextRow]_vars

ValidRows(M, i, j) == i \in 1..M.rows /\ j \in 1..M.rows

\* C9: for valid row indices i, j (i = j included) row_switching(i, j) returns
\* a matrix of the same shape with rows i and j exchanged and every other row
\* unchanged, and switching the same rows of the result gives the receiver
\* back; rowSwitch([[1,2],[3,4]], 1, 2) = [[3,4],[1,2]].
C9_RowSwitchingExchangesRows ==
    (pc = "row_switching" /\ ValidRows(recv, args.i, args.j)) =>
        /\ res.ok
        /\ res.val.rows = recv.rows
        /\ res.val.cols = recv.cols
        /\ res.val.data[args.i] = recv.data[args.j]
        /\ res.val.data[args.j] = recv.data[args.i]
        /\ \A r \in 1..recv.rows :
              r \notin {args.i, args.j} => res.val.data[r] = recv.data[r]
        /\ row_switching(res.val, args.i, args.j) = Ok(recv)

C9_Witness ==
    /\ pc = "row_switching"
    /\ args.i = 1
    /\ args.j = 2
    /\ recv.data = <<<<1, 2>>, <<0, 1>>>>
    /\ res.ok
    /\ res.val.data = <<<<0, 1>>, <<1, 2>>>>

\* C10: for valid row indices i, j and every scalar k, row_addition(i, j, k)
\* returns a matrix of the receiver's shape in which row i is row_i + k*row_j
\* and every other row is unchanged, also when several rows have identical
\* entries.
C10_RowAdditionChangesOnlyRowI ==
    (pc \in {"row_addition", "RadAddisjon"} /\ ValidRows(recv, args.i, args.j)) =>
        /\ res.ok
        /\ res.val.rows = recv.rows
        /\ res.val.cols = recv.cols
        /\ res.val.data[args.i] =
               [c \in 1..recv.cols |->
                   recv.data[args.i][c] + args.k * recv.data[args.j][c]]
        /\ \A r \in 1..recv.rows :
              r # args.i => res.val.data[r] = recv.data[r]

\* what row_addition does keep: the shape, and the new row i
C10_RowAdditionRowI ==
    (pc = "row_addition" /\ ValidRows(recv, args.i, args.j)) =>
        /\ res.ok
        /\ res.val.rows = recv.rows
        /\ res.val.cols = recv.cols
        /\ res.val.data[args.i] =
               [c \in 1..recv.cols |->
                   recv.data[args.i][c] + args.k * recv.data[args.j][c]]
        /\ \A r \in 1..recv.rows :
              recv.data[r] # recv.data[args.i] => res.val.data[r] = recv.data[r]

(***************************************************************************)
(* Element access: M[i, j] and M[i, j] = entry.                            *)
(***************************************************************************)
\* an access that checks only the upper bound: Python's list indexing then
\* counts a non-positive offset from the end
getitem_python_wrap(M, i, j) ==
    IF i > M.rows \/ i - 1 < -M.rows THEN Raise("IndexError", "")
    ELSE IF j > M.cols \/ j - 1 < -M.cols THEN Raise("IndexError", "")
    ELSE Ok(M.data[((i - 1) % M.rows) + 1][((j - 1) % M.cols) + 1])

\* src/my_matrix_lib DunderMixin.__getitem__
getitem_mylib(M, i, j) ==
    IF (i - 1) \notin 0..(M.rows - 1) THEN Raise("IndexOutOfBounds", "row")
    ELSE IF (j - 1) \notin 0..(M.cols - 1) THEN Raise("IndexOutOfBounds", "col")
    ELSE Ok(M.data[i][j])

\* DunderMixin.__setitem__: the outcome of the call (it returns None)
setitem(M, i, j, entry) ==
    IF (i - 1) \notin 0..(M.rows - 1) THEN Raise("IndexOutOfBounds", "row")
    ELSE IF (j - 1) \notin 0..(M.cols - 1) THEN Raise("IndexOutOfBounds", "col")
    ELSE Ok(0)

\* self._data[i-1][j-1] = entry
Assigned(M, i, j, entry) == [M EXCEPT !.data[i][j] = entry]

(***************************************************************************)
(* get and set on every matrix of at most MaxDim rows and columns, with    *)
(* every index from -1 to MaxDim + 1.                                      *)
(***************************************************************************)
IndexVals == {0, 1, 2}

\* the entries assigned
SetVals == {7}

Indices == (-1)..(MaxDim + 1)

GetItem ==
    /\ pc = "init"
    /\ \E i \in Indices, j \in Indices :
          /\ args' = [NoArgs EXCEPT !.i = i, !.j = j]
          /\ res' = getitem(recv, i, j)
    /\ pc' = "getitem.matrixlib"
    /\ UNCHANGED <<recv, other>>
    /\ HeapUnchanged

GetItemMyLib ==
    /\ pc = "init"
    /\ \E i \in Indices, j \in Indices :
          /\ args' = [NoArgs EXCEPT !.i = i, !.j = j]
          /\ res' = getitem_mylib(recv, i, j)
    /\ pc' = "getitem.my_matrix_lib"
    /\ UNCHANGED <<recv, other>>
    /\ HeapUnchanged

SetItem ==
    /\ pc = "init"
    /\ \E i \in Indices, j \in Indices, entry \in SetVals :
          /\ args' = [NoArgs EXCEPT !.i = i, !.j = j, !.k = entry]
          /\ res' = setitem(recv, i, j, entry)
          /\ recv' = IF setitem(recv, i, j, entry).ok
                     THEN Assigned(recv, i, j, entry)
                     ELSE recv
    /\ pc' = "setitem"
    /\ UNCHANGED other
    /\ HeapUnchanged

InitIndex ==
    /\ IsMatrixOver(recv, MaxDim, IndexVals)
    /\ other = NoMatrix
    /\ InitRest

NextIndex == GetItem \/ GetItemMyLib \/ SetItem

SpecIndex == InitIndex /\ [][NextIndex]_vars

\* the outcome the claim gives for an access at (i, j) of M
IndexErrorFor(M, i, j) ==
    IF i \notin 1..M.rows THEN Raise("IndexOutOfBounds", "row")
    ELSE Raise("IndexOutOfBounds", "col")

InRange(M, i, j) == i \in 1..M.rows /\ j \in 1..M.cols

GetOps == {"getitem.matrixlib", "getitem.my_matrix_lib"}

C7_GetReturnsOrRaises ==
    pc \in GetOps =>
        IF InRange(recv, args.i, args.j)
        THEN res = Ok(recv.data[args.i][args.j])
        ELSE res = IndexErrorFor(recv, args.i, args.j)

C7_SetAssignsOrRaises ==
    pc' = "setitem" =>
        IF InRange(recv, args'.i, args'.j)
        THEN /\ res'.ok
             /\ recv'.data[args'.i][args'.j] = args'.k
             /\ \A r \in 1..recv.rows, c \in 1..recv.cols :
                   <<r, c>> # <<args'.i, args'.j>> => recv'.data[r][c] = recv.data[r][c]
        ELSE /\ res' = IndexErrorFor(recv, args'.i, args'.j)
             /\ recv' = recv

\* C7: M[i,j] with 1 <= i <= r and 1 <= j <= c returns the entry of row i and
\* column j counted from 1; get or set with i outside [1,r] (0 and negative
\* values included) raises IndexOutOfBounds for axis 'row', with j outside
\* [1,c] raises IndexOutOfBounds for axis 'col', and a failed set leaves the
\* matrix unchanged.
C7_OneBasedCheckedAccess ==
    /\ []C7_GetReturnsOrRaises
    /\ [][C7_SetAssignsOrRaises]_vars

C7_Witness ==
    /\ pc = "setitem"
    /\ args.i = 0
    /\ args.j = 1
    /\ res = Raise("IndexOutOfBounds", "row")
    /\ recv.rows = 2

(***************************************************************************)
(* Storage.  A Python list is an object with an identity: store[id] holds  *)
(* the entries of row list id, a Matrix object holds the ids of its rows   *)
(* in _data, and a handle is a program variable bound to a Matrix object.  *)
(***************************************************************************)
MaxHandles == 3
MaxSteps == 3
HeapVals == {0, 1}

\* a row handed to the constructor: the list it is (ref, 0 for a temporary
\* built by the caller's comprehension) and its entries
RowOf(st, id) == [ref |-> id, val |-> st[id]]
TempRow(entries) == [ref |-> 0, val |-> entries]

\* Matrix.__init__ on the heap: self._data = [row[:] for row in data]
\* copies every row into a new list
heap_init(st, rowsGiven) ==
    [store |-> st \o [r \in 1..Len(rowsGiven) |-> rowsGiven[r].val],
     obj   |-> [rows |-> Len(rowsGiven),
                cols |-> Len(rowsGiven[1].val),
                data |-> [r \in 1..Len(rowsGiven) |-> Len(st) + r]]]

\* the matrix an object holds
Content(st, o) == [rows |-> o.rows, cols |-> o.cols,
                   data |-> [r \in 1..o.rows |-> st[o.data[r]]]]

ContentOf(h) == Content(store, objs[handles[h]])

\* cap on the calls made
CanCall == steps < MaxSteps
CanBind == CanCall /\ Len(handles) < MaxHandles

\* A = Matrix(data) with the caller's nested list
HeapConstruct ==
    /\ CanBind
    /\ LET made == heap_init(store, [r \in 1..Len(ext) |-> RowOf(store, ext[r])])
       IN /\ store' = made.store
          /\ objs' = Append(objs, made.obj)
          /\ handles' = Append(handles, Len(objs) + 1)
    /\ pc' = "Matrix"
    /\ args' = NoArgs
    /\ res' = Ok(0)
    /\ steps' = steps + 1
    /\ UNCHANGED <<recv, other, ext>>

\* B = +A : __pos__ returns self
HeapPos ==
    /\ CanBind
    /\ \E h \in 1..Len(handles) :
          /\ handles' = Append(handles, handles[h])
          /\ args' = [NoArgs EXCEPT !.h = h]
    /\ pc' = "pos"
    /\ res' = Ok(0)
    /\ steps' = steps + 1
    /\ UNCHANGED <<recv, other, ext, store, objs>>

\* B = A.row_switching(i, j): the rows i and j are passed as they are, the
\* others as copies, and the constructor copies all of them
HeapRowSwitching ==
    /\ CanBind
    /\ \E h \in 1..Len(handles) :
          LET o == objs[handles[h]]
          IN \E i \in 1..o.rows, j \in 1..o.rows :
                LET given == [idx \in 1..o.rows |->
                                 IF idx = j THEN RowOf(store, o.data[i])
                                 ELSE IF idx = i THEN RowOf(store, o.data[j])
                                 ELSE TempRow(store[o.data[idx]])]
                    made == heap_init(store, given)
                IN /\ store' = made.store
                   /\ objs' = Append(objs, made.obj)
                   /\ handles' = Append(handles, Len(objs) + 1)
                   /\ args' = [NoArgs EXCEPT !.h = h, !.i = i, !.j = j]
    /\ pc' = "row_switching"
    /\ res' = Ok(0)
    /\ steps' = steps + 1
    /\ UNCHANGED <<recv, other, ext>>

\* B = A.transpose(): Matrix([[self(j, i) for j in ...] for i in ...])
HeapTranspose ==
    /\ CanBind
    /\ \E h \in 1..Len(handles) :
          LET T == transpose(ContentOf(h)).val
              made == heap_init(store, [r \in 1..T.rows |-> TempRow(T.data[r])])
          IN /\ store' = made.store
             /\ objs' = Append(objs, made.obj)
             /\ handles' = Append(handles, Len(objs) + 1)
             /\ args' = [NoArgs EXCEPT !.h = h]
    /\ pc' = "transpose"
    /\ res' = Ok(0)
    /\ steps' = steps + 1
    /\ UNCHANGED <<recv, other, ext>>

\* C = A.matrix_addition(B)
HeapAddition ==
    /\ CanBind
    /\ \E h \in 1..Len(handles), g \in 1..Len(handles) :
          LET S == matrix_addition(ContentOf(h), ContentOf(g))
          IN /\ S.ok
             /\ LET made == heap_init(store,
                                [r \in 1..S.val.rows |-> TempRow(S.val.data[r])])
                IN /\ store' = made.store
                   /\ objs' = Append(objs, made.obj)
                   /\ handles' = Append(handles, Len(objs) + 1)
             /\ args' = [NoArgs EXCEPT !.h = h, !.i = g]
    /\ pc' = "matrix_addition"
    /\ res' = Ok(0)
    /\ steps' = steps + 1
    /\ UNCHANGED <<recv, other, ext>>

\* A[i, j] = entry through a handle
HeapSetItem ==
    /\ CanCall
    /\ \E h \in 1..Len(handles) :
          LET o == objs[handles[h]]
          IN \E i \in 1..o.rows, j \in 1..o.cols, entry \in SetVals :
                /\ setitem(ContentOf(h), i, j, entry).ok
                /\ store' = [store EXCEPT ![o.data[i]][j] = entry]
                /\ args' = [h |-> h, i |-> i, j |-> j, k |-> entry]
    /\ pc' = "setitem"
    /\ res' = Ok(0)
    /\ steps' = steps + 1
    /\ UNCHANGED <<recv, other, ext, objs, handles>>

\* data[r][c] = entry: the caller writes into the list it gave the constructor
HeapCallerWrites ==
    /\ CanCall
    /\ Len(handles) > 0
    /\ \E r \in 1..Len(ext) :
          \E c \in 1..Len(store[ext[r]]), entry \in SetVals :
             /\ store' = [store EXCEPT ![ext[r]][c] = entry]
             /\ args' = [NoArgs EXCEPT !.i = r, !.j = c, !.k = entry]
    /\ pc' = "data.setitem"
    /\ res' = Ok(0)
    /\ steps' = steps + 1
    /\ UNCHANGED <<recv, other, ext, objs, handles>>

\* the caller has built a nested list; no Matrix exists yet
InitHeap ==
    /\ \E m \in Dims, n \in Dims :
          /\ store \in [1..m -> [1..n -> HeapVals]]
          /\ ext = [r \in 1..m |-> r]
    /\ objs = <<>>
    /\ handles = <<>>
    /\ steps = 0
    /\ pc = "init"
    /\ recv = NoMatrix
    /\ other = NoMatrix
    /\ args = NoArgs
    /\ res = NoRes

NextHeap ==
    \/ HeapConstruct
    \/ HeapPos
    \/ HeapRowSwitching
    \/ HeapTranspose
    \/ HeapAddition
    \/ HeapSetItem
    \/ HeapCallerWrites

SpecHeap == InitHeap /\ [][NextHeap]_vars

\* the row lists of the object a handle is bound to
RowListsOf(h) == SeqSet(objs[handles[h]].data)

\* every handle is bound to a Matrix of its own, whose rows are lists of its
\* own: none is a row of another Matrix or of the caller's list
NoSharedStorage ==
    \A h \in 1..Len(handles) :
        /\ Cardinality(RowListsOf(h)) = objs[handles[h]].rows
        /\ RowListsOf(h) \cap SeqSet(ext) = {}
        /\ \A g \in 1..Len(handles) :
              g # h => /\ handles[g] # handles[h]
                       /\ RowListsOf(g) \cap RowListsOf(h) = {}

\* a set through one handle changes entry (i, j) of that Matrix and nothing
\* else: no other entry of it, no other Matrix
SetChangesOneEntry ==
    pc' = "setitem" =>
        \A h \in 1..Len(handles) :
            LET before == ContentOf(h).data
                after  == Content(store', objs[handles[h]]).data
            IN \A r \in 1..Len(before) : \A c \in 1..Len(before[r]) :
                  after[r][c] = IF h = args'.h /\ r = args'.i /\ c = args'.j
                                THEN args'.k
                                ELSE before[r][c]

\* C6: every operation, unary plus, a row operation, transpose and arithmetic
\* included, returns a new Matrix that shares no storage with its operands or
\* with the list given to the constructor, so that set(i,j,v) changes exactly
\* entry (i,j) of the receiver and leaves every other Matrix unchanged.
C6_OperationsReturnNewMatrices ==
    /\ []NoSharedStorage
    /\ [][SetChangesOneEntry]_vars

\* what the code does guarantee: rows are never shared between two Matrix
\* objects or with the caller's list
RowsNeverShared ==
    \A a \in 1..Len(objs) :
        /\ Cardinality(SeqSet(objs[a].data)) = objs[a].rows
        /\ SeqSet(objs[a].data) \cap SeqSet(ext) = {}
        /\ \A b \in 1..Len(objs) :
              b # a => SeqSet(objs[a].data) \cap SeqSet(objs[b].data) = {}

(***************************************************************************)
(* row_multiplication (src/matrixlib and src/mixins, the same text).       *)
(***************************************************************************)
row_multiplication(M, i, k) ==
    IF (i - 1) \notin 0..(M.rows - 1) THEN Raise("IndexOutOfBounds", "row")
    ELSE IF BelowTolerance(k) THEN Raise("ValueError", "")
    ELSE New([idx \in 1..M.rows |->
                IF idx = i THEN [c \in 1..M.cols |-> k * M.data[i][c]]
                ELSE M.data[idx]])

RowMultiplication ==
    /\ pc = "init"
    /\ \E i \in 0..(MaxDim + 1), k \in RowFactors :
          /\ args' = [NoArgs EXCEPT !.i = i, !.k = k]
          /\ res' = row_multiplication(recv, i, k)
    /\ pc' = "row_multiplication.matrixlib"
    /\ UNCHANGED <<recv, other>>
    /\ HeapUnchanged

RowMultiplicationMixins ==
    /\ pc = "init"
    /\ \E i \in 0..(MaxDim + 1), k \in RowFactors :
          /\ args' = [NoArgs EXCEPT !.i = i, !.k = k]
          /\ res' = row_multiplication(recv, i, k)
    /\ pc' = "row_multiplication.mixins"
    /\ UNCHANGED <<recv, other>>
    /\ HeapUnchanged

NextRowMul == RowMultiplication \/ RowMultiplicationMixins

SpecRowMul == InitRow /\ [][NextRowMul]_vars

RowMulOps == {"row_multiplication.matrixlib", "row_multiplication.mixins"}

\* C11: row_multiplication(i, k) with a valid row index i returns a matrix in
\* which row i is k * row_i and all other rows are unchanged when |k| is at
\* least the tolerance; when |k| is below the tolerance (k = 0) it returns no
\* matrix and fails with the InvalidValue kind (MatrixValueError).
C11_RowMultiplicationScalesOrRejects ==
    (pc \in RowMulOps /\ args.i \in 1..recv.rows) =>
        IF BelowTolerance(args.k)
        THEN res = Raise("InvalidValue", "")
        ELSE /\ res.ok
             /\ res.val.rows = recv.rows
             /\ res.val.cols = recv.cols
             /\ \A r \in 1..recv.rows, c \in 1..recv.cols :
                   res.val.data[r][c] = IF r = args.i
                                        THEN args.k * recv.data[r][c]
                                        ELSE recv.data[r][c]

\* the part of C11 the code satisfies: a factor of magnitude at least the
\* tolerance scales row i only, a smaller one returns no matrix
C11_ScalesRowI ==
    (pc \in RowMulOps /\ args.i \in 1..recv.rows) =>
        IF BelowTolerance(args.k)
        THEN ~res.ok
        ELSE /\ res.ok
             /\ \A r \in 1..recv.rows, c \in 1..recv.cols :
                   res.val.data[r][c] = IF r = args.i
                                        THEN args.k * recv.data[r][c]
                                        ELSE recv.data[r][c]

(***************************************************************************)
(* reduced_row_echelon_form (src/matrixlib).  The entries are numbers that *)
(* Python compares by value (1 == 1.0): they are kept as fractions.        *)
(***************************************************************************)
FracNeg(a) == [num |-> -a.num, den |-> a.den]

\* x ** -1 for x # 0
FracInv(a) == Frac(a.den, a.num)

\* abs(x) < eps for a float x
BelowToleranceFloat(x) == x.num = 0

row_multiplication_float(M, i, k) ==
    IF (i - 1) \notin 0..(M.rows - 1) THEN Raise("IndexOutOfBounds", "row")
    ELSE IF BelowToleranceFloat(k) THEN Raise("ValueError", "")
    ELSE New([idx \in 1..M.rows |->
                IF idx = i THEN [c \in 1..M.cols |-> FracMul(k, M.data[i][c])]
                ELSE M.data[idx]])

row_addition_float(M, i, j, k) ==
    IF (i - 1) \notin 0..(M.rows - 1) \/ (j - 1) \notin 0..(M.rows - 1)
    THEN Raise("IndexOutOfBounds", "row")
    ELSE New([r \in 1..M.rows |->
                IF M.data[r] = M.data[i]
                THEN [idx \in 1..M.cols |->
                         FracAdd(M.data[i][idx], FracMul(k, M.data[j][idx]))]
                ELSE M.data[r]])

\* the inner search: the first i in range(pivot, rows+1) with
\* abs(M[i,j]) >= eps, or 0 when there is none
PivotRow(M, j, pivot) ==
    IF \A i \in pivot..M.rows : BelowToleranceFloat(M.data[i][j]) THEN 0
    ELSE CHOOSE i \in pivot..M.rows :
            /\ ~BelowToleranceFloat(M.data[i][j])
            /\ \A l \in pivot..(i - 1) : BelowToleranceFloat(M.data[l][j])

RECURSIVE Eliminate(_, _, _, _)
\* for i in range(1, rows+1): if i == pivot: continue;
\*     M = M.row_addition(i, pivot, -M[i,j])
Eliminate(M, i, pivot, j) ==
    IF i > M.rows THEN Ok(M)
    ELSE IF i = pivot THEN Eliminate(M, i + 1, pivot, j)
    ELSE Then(row_addition_float(M, i, pivot, FracNeg(M.data[i][j])),
              LAMBDA N : Eliminate(N, i + 1, pivot, j))

RECURSIVE RrefFrom(_, _, _)
\* the loop over the columns j, from column j on with the next pivot row
RrefFrom(M, j, pivot) ==
    IF j > M.cols THEN Ok(M)
    ELSE IF PivotRow(M, j, pivot) = 0 THEN RrefFrom(M, j + 1, pivot)
    ELSE Then(row_switching(M, PivotRow(M, j, pivot), pivot), LAMBDA S :
         Then(row_multiplication_float(S, pivot, FracInv(S.data[pivot][j])), LAMBDA P :
         Then(Eliminate(P, 1, pivot, j), LAMBDA E :
         RrefFrom(E, j + 1, pivot + 1))))

reduced_row_echelon_form(M) == RrefFrom(M, 1, 1)

(***************************************************************************)
(* RREF and RREF of the result, on every matrix of at most MaxRrefDim rows *)
(* and columns.                                                            *)
(***************************************************************************)
MaxRrefDim == 3
RrefVals == {0, 1}

Rref ==
    /\ pc = "init"
    /\ pc' = "rref"
    /\ res' = reduced_row_echelon_form(ToFloat(recv))
    /\ UNCHANGED <<recv, other, args>>
    /\ HeapUnchanged

\* other keeps the first result
RrefAgain ==
    /\ pc = "rref"
    /\ res.ok
    /\ pc' = "rref.rref"
    /\ other' = res.val
    /\ res' = reduced_row_echelon_form(res.val)
    /\ UNCHANGED <<recv, args>>
    /\ HeapUnchanged

InitRref ==
    /\ IsMatrixOver(recv, MaxRrefDim, RrefVals)
    /\ other = NoMatrix
    /\ InitRest

NextRref == Rref \/ RrefAgain

SpecRref == InitRref /\ [][NextRref]_vars

\* C12: for every matrix A (any shape, rank-deficient matrices and matrices
\* with repeated rows included), reduced_row_echelon_form applied to
\* reduced_row_echelon_form(A) returns a matrix equal to
\* reduced_row_echelon_form(A).
C12_RrefIsIdempotent ==
    pc = "rref.rref" => res.ok /\ res.val = other

\* without two equal rows in A the second run returns the first result
C12_IdempotentWithoutRepeatedRows ==
    (pc = "rref.rref"
        /\ \A r \in 1..recv.rows, q \in 1..recv.rows :
              r # q => recv.data[r] # recv.data[q])
    => res.ok /\ res.val = other

(***************************************************************************)
(* transpose (src/my_matrix_lib) and Matrise.Transposisjon.                *)
(***************************************************************************)
Transposisjon(M) ==
    Ok(Matrise([j \in 1..M.cols |-> [i \in 1..M.rows |-> M.data[i][j]]]))

TransVals == {0, 1, 2}

Transpose ==
    /\ pc = "init"
    /\ pc' = "transpose"
    /\ res' = transpose(recv)
    /\ UNCHANGED <<recv, other, args>>
    /\ HeapUnchanged

\* other keeps the first result
TransposeAgain ==
    /\ pc = "transpose"
    /\ res.ok
    /\ pc' = "transpose.transpose"
    /\ other' = res.val
    /\ res' = transpose(res.val)
    /\ UNCHANGED <<recv, args>>
    /\ HeapUnchanged

TransposisjonCall ==
    /\ pc = "init"
    /\ pc' = "Transposisjon"
    /\ res' = Transposisjon(recv)
    /\ UNCHANGED <<recv, other, args>>
    /\ HeapUnchanged

TransposisjonAgain ==
    /\ pc = "Transposisjon"
    /\ res.ok
    /\ pc' = "Transposisjon.Transposisjon"
    /\ other' = res.val
    /\ res' = Transposisjon(res.val)
    /\ UNCHANGED <<recv, args>>
    /\ HeapUnchanged

InitTrans ==
    /\ IsMatrixOver(recv, MaxDim, TransVals)
    /\ other = NoMatrix
    /\ InitRest

NextTrans == Transpose \/ TransposeAgain \/ TransposisjonCall \/ TransposisjonAgain

SpecTrans == InitTrans /\ [][NextTrans]_vars

\* T is the transpose of A
IsTransposeOf(T, A) ==
    /\ T.rows = A.cols
    /\ T.cols = A.rows
    /\ \A i \in 1..T.rows, j \in 1..T.cols : T.data[i][j] = A.data[j][i]

\* C13: for every matrix A, transpose(A) has shape (A.cols, A.rows) with
\* transpose(A)[i,j] = A[j,i], and transpose(transpose(A)) equals A.
C13_TransposeIsInvolution ==
    /\ pc \in {"transpose", "Transposisjon"} =>
          res.ok /\ IsTransposeOf(res.val, recv)
    /\ pc \in {"transpose.transpose", "Transposisjon.Transposisjon"} =>
          res.ok /\ IsTransposeOf(other, recv) /\ res.val = recv

C13_Witness ==
    /\ pc = "transpose.transpose"
    /\ recv.data = <<<<1, 2>>>>
    /\ other.data = <<<<1>>, <<2>>>>
    /\ res.val = recv

(***************************************************************************)
(* identity, trace and determinant (src/my_matrix_lib).                    *)
(***************************************************************************)
trace(M) ==
    IF ~IsSquare(M) THEN Raise("NotSquare", "")
    ELSE AllThen([i \in 1..M.rows |-> getitem(M, i, i)],
                 LAMBDA diagonal : Ok(SumSeq(diagonal)))

MaxIdentity == 4
IdVals == {0, 1}

\* I = Matrix.identity(n): recv is the matrix trace() is also called on
Identity ==
    /\ pc = "init"
    /\ \E n \in (-1)..MaxIdentity :
          /\ args' = [NoArgs EXCEPT !.k = n]
          /\ res' = identity(n)
    /\ pc' = "identity"
    /\ UNCHANGED <<recv, other>>
    /\ HeapUnchanged

\* I.determinant(): other keeps I
DeterminantOfIdentity ==
    /\ pc = "identity"
    /\ res.ok
    /\ pc' = "identity.determinant"
    /\ other' = res.val
    /\ res' = determinant(res.val)
    /\ UNCHANGED <<recv, args>>
    /\ HeapUnchanged

\* I.trace(): other keeps I
TraceOfIdentity ==
    /\ pc = "identity"
    /\ res.ok
    /\ pc' = "identity.trace"
    /\ other' = res.val
    /\ res' = trace(res.val)
    /\ UNCHANGED <<recv, args>>
    /\ HeapUnchanged

\* recv.trace()
Trace ==
    /\ pc = "init"
    /\ pc' = "trace"
    /\ res' = trace(recv)
    /\ UNCHANGED <<recv, other, args>>
    /\ HeapUnchanged

InitIdentity ==
    /\ IsMatrixOver(recv, MaxDim, IdVals)
    /\ other = NoMatrix
    /\ InitRest

NextIdentity == Identity \/ DeterminantOfIdentity \/ TraceOfIdentity \/ Trace

SpecIdentity == InitIdentity /\ [][NextIdentity]_vars

\* C14: for every integer n >= 1, identity(n) is the n x n matrix with 1 on
\* the diagonal and 0 elsewhere, determinant(identity(n)) equals 1 and
\* trace(identity(n)) equals n.
C14_IdentityDeterminantAndTrace ==
    /\ (pc = "identity" /\ args.k >= 1) =>
          /\ res.ok
          /\ res.val.rows = args.k
          /\ res.val.cols = args.k
          /\ \A i \in 1..args.k, j \in 1..args.k :
                res.val.data[i][j] = IF i = j THEN 1 ELSE 0
    /\ pc = "identity.determinant" => res = Ok(1)
    /\ pc = "identity.trace" => res = Ok(args.k)

C14_Witness ==
    /\ pc = "identity.determinant"
    /\ args.k = 3
    /\ other.data = <<<<1, 0, 0>>, <<0, 1, 0>>, <<0, 0, 1>>>>
    /\ res = Ok(1)

(***************************************************************************)
(* Integer matrix powers: Matrix.matrix_exponentiation and                 *)
(* Matrise.MatrisePotens.                                                  *)
(***************************************************************************)
Matriseaddisjon(A, B) ==
    Ok(Matrise([i \in 1..A.rows |->
                  [j \in 1..A.cols |-> A.data[i][j] + B.data[i][j]]]))

RECURSIVE MatrisePotens(_, _)
\* without a base case below 1 the recursion does not end for n < 1
MatrisePotens(M, n) ==
    IF n < 1 THEN Raise("RecursionError", "")
    ELSE IF n = 1 THEN Ok(M)
    ELSE Then(MatrisePotens(M, n - 1), LAMBDA P : Matriseaddisjon(M, P))

PowVals == {0, 1, 2}

Scenario6 == Mat(<<<<2, 0>>, <<0, 3>>>>)

MatrixExponentiation ==
    /\ pc = "init"
    /\ \E k \in (-MaxExp)..MaxExp :
          /\ args' = [NoArgs EXCEPT !.k = k]
          /\ res' = matrix_exponentiation(recv, k)
    /\ pc' = "matrix_exponentiation"
    /\ UNCHANGED <<recv, other>>
    /\ HeapUnchanged

MatrisePotensCall ==
    /\ pc = "init"
    /\ \E n \in 0..(MaxExp + 1) :
          /\ args' = [NoArgs EXCEPT !.k = n]
          /\ res' = MatrisePotens(recv, n)
    /\ pc' = "MatrisePotens"
    /\ UNCHANGED <<recv, other>>
    /\ HeapUnchanged

InitPow ==
    /\ IsMatrixOver(recv, MaxDim, PowVals) \/ recv = Scenario6
    /\ other = NoMatrix
    /\ InitRest

NextPow == MatrixExponentiation \/ MatrisePotensCall

SpecPow == InitPow /\ [][NextPow]_vars

\* the matrix product of two matrices of fractions
FloatProduct(A, B) ==
    [rows |-> A.rows, cols |-> B.cols,
     data |-> [i \in 1..A.rows |->
                 [j \in 1..B.cols |->
                    FracSum([r \in 1..A.cols |->
                               FracMul(A.data[i][r], B.data[r][j])])]]]

RECURSIVE PowerOf(_, _)
\* the k-fold product F x F x ... x F, the identity for k = 0
PowerOf(F, k) ==
    IF k = 0 THEN identity_float(F.rows) ELSE FloatProduct(F, PowerOf(F, k - 1))

\* res is the k-th power of recv, for a negative k the matrix whose product
\* with the |k|-th power of recv is the identity
IsPowerOfRecv ==
    IF args.k >= 0
    THEN res.ok /\ ToFloat(res.val) = PowerOf(ToFloat(recv), args.k)
    ELSE determinant(recv).val # 0 =>
            /\ res.ok
            /\ FloatProduct(PowerOf(ToFloat(recv), -args.k), res.val)
                  = identity_float(recv.rows)

\* C15: for every square matrix A and integer k the integer matrix power is
\* identity(A.rows) for k = 0 (also for singular A), the k-fold product
\* A x ... x A for k > 0 and the |k|-fold product of inverse(A) for k < 0;
\* this holds for Matrix.matrix_exponentiation and for Matrise.MatrisePotens
\* with n >= 1.
C15_IntegerMatrixPower ==
    /\ (pc = "matrix_exponentiation" /\ IsSquare(recv)) => IsPowerOfRecv
    /\ (pc = "MatrisePotens" /\ IsSquare(recv) /\ args.k >= 1) => IsPowerOfRecv

\* the part of C15 the code satisfies: matrix_exponentiation with k >= 0, and
\* with k < 0 from size 2 on; MatrisePotens with n = 1
C15_PowerWhereItHolds ==
    /\ (pc = "matrix_exponentiation" /\ IsSquare(recv)
           /\ (args.k >= 0 \/ recv.rows >= 2)) => IsPowerOfRecv
    /\ (pc = "MatrisePotens" /\ IsSquare(recv) /\ args.k = 1) => IsPowerOfRecv
    /\ (pc = "matrix_exponentiation" /\ recv = Scenario6 /\ args.k = -1) =>
          res.val.data = <<<<Frac(1, 2), FracOf(0)>>, <<FracOf(0), Frac(1, 3)>>>>

\* MatrisePotens(n) adds the matrix to itself n - 1 times
C15_MatrisePotensIsMultiple ==
    (pc = "MatrisePotens" /\ args.k >= 1) =>
        /\ res.ok
        /\ \A i \in 1..recv.rows, j \in 1..recv.cols :
              res.val.data[i][j] = args.k * recv.data[i][j]

(***************************************************************************)
(* The Hadamard product of every revision: src/matrixlib, src/my_matrix_lib *)
(* and src/mixins.                                                         *)
(***************************************************************************)
have_same_size_mixins(A, B) == A.rows = B.rows /\ A.cols = B.cols

\* src/mixins: HelperMixin._validate_same_size(other, *, operation) takes no
\* keyword reason, so the call _validate_same_size(other, operation=...,
\* reason=...) raises TypeError before the sizes are compared
validate_same_size_with_reason(A, B) == Raise("TypeError", "")

hadamard_product_mixins(A, B) ==
    Then(validate_same_size_with_reason(A, B),
         LAMBDA v :
            IF have_same_size_mixins(A, B) THEN Raise("InvalidDimensions", "")
            ELSE New([r \in 1..A.rows |->
                        [c \in 1..A.cols |->
                            call(A, r - 1, c - 1).val * call(B, r - 1, c - 1).val]]))

HadamardMixins ==
    /\ pc = "init"
    /\ pc' = "hadamard.mixins"
    /\ args' = NoArgs
    /\ res' = hadamard_product_mixins(recv, other)
    /\ UNCHANGED <<recv, other>>
    /\ HeapUnchanged

NextHadamard == Hadamard \/ HadamardMyLib \/ HadamardMixins

SpecHadamard == InitBin /\ [][NextHadamard]_vars

HadamardRevisions == HadamardOps \cup {"hadamard.mixins"}

\* res is the matrix of the shape of recv with entry (i,j) = A[i,j] * B[i,j]
IsHadamardOfOperands ==
    /\ res.ok
    /\ res.val.rows = recv.rows
    /\ res.val.cols = recv.cols
    /\ \A i \in 1..recv.rows :
         \A j \in 1..recv.cols :
            res.val.data[i][j] = recv.data[i][j] * other.data[i][j]

\* C16: for every pair of Matrix operands A and B of identical shape,
\* hadamard_product(A, B) returns (does not raise) a matrix of that shape with
\* entry (i,j) = A[i,j] * B[i,j], in every revision of hadamard_product.
C16_HadamardOfEveryRevision ==
    (pc \in HadamardRevisions /\ IsInstance(other)
        /\ recv.rows = other.rows /\ recv.cols = other.cols)
       => IsHadamardOfOperands

\* the part of C16 the code satisfies: the src/matrixlib and src/my_matrix_lib
\* revisions
C16_HadamardOfTwoRevisions ==
    (pc \in HadamardOps /\ IsInstance(other)
        /\ recv.rows = other.rows /\ recv.cols = other.cols)
       => IsHadamardOfOperands

\* the src/mixins revision raises TypeError for every pair of operands
C16_MixinsRevisionRaises ==
    pc = "hadamard.mixins" => (~res.ok /\ res.err = "TypeError")

(***************************************************************************)
(* BooleanLogicMixin (src/matrixlib): elementwise_OR, elementwise_AND,     *)
(* elementwise_NOT and the operators | and &.  An entry is a Python value: *)
(* a bool is an int with value 0 or 1, so an entry records both whether it *)
(* is a bool and its integer value.                                        *)
(***************************************************************************)
PyBool(b) == [bool |-> TRUE, int |-> IF b THEN 1 ELSE 0]

PyInt(n) == [bool |-> FALSE, int |-> n]

\* bool(x)
Truthy(x) == x.int # 0

\* not x
PyNot(x) == PyBool(~Truthy(x))

is_boolean_matrix(M) ==
    \A r \in 1..M.rows : \A c \in 1..M.cols : M.data[r][c].bool

\* self.data: Matrix in src/matrixlib/core.py stores _data and defines no
\* attribute data; the mixins core.py imports that are not in src/ may
\* define it (defined) or not (AttributeError)
data_attribute(M, defined) ==
    IF defined THEN Ok(M.data) ELSE Raise("AttributeError", "")

\* d[row][col] on a list of lists, 0-based
list_item(d, row, col) ==
    IF row + 1 > Len(d) THEN Raise("IndexError", "")
    ELSE IF col + 1 > Len(d[row + 1]) THEN Raise("IndexError", "")
    ELSE Ok(d[row + 1][col + 1])

\* the list [[f(row, col) for col in range(cols)] for row in range(rows)],
\* its entries in the order they are computed
Comprehension(rows, cols, f(_, _)) ==
    [k \in 1..(rows * cols) |-> f((k - 1) \div cols, (k - 1) % cols)]

Rows(rows, cols, vs) ==
    [r \in 1..rows |-> [c \in 1..cols |-> vs[(r - 1) * cols + c]]]

\* not a or b: b is evaluated only when not a is false
not_or(a, b) == IF Truthy(PyNot(a.val)) THEN Ok(PyNot(a.val)) ELSE b

\* not a and b: b is evaluated only when not a is true
not_and(a, b) == IF ~Truthy(PyNot(a.val)) THEN Ok(PyNot(a.val)) ELSE b

elementwise_OR(A, B, defined) ==
    IF have_same_size(A, B) THEN Raise("InvalidDimensions", "")
    ELSE IF ~is_boolean_matrix(A) \/ ~is_boolean_matrix(B)
    THEN Raise("InvalidData", "")
    ELSE Then(data_attribute(A, defined),
              LAMBDA d :
                 AllThen(Comprehension(A.rows, A.cols,
                            LAMBDA row, col :
                               not_or(list_item(d, row, col),
                                      list_item(B.data, row, col))),
                         LAMBDA vs : New(Rows(A.rows, A.cols, vs))))

elementwise_AND(A, B, defined) ==
    IF have_same_size(A, B) THEN Raise("InvalidDimensions", "")
    ELSE IF ~is_boolean_matrix(A) \/ ~is_boolean_matrix(B)
    THEN Raise("InvalidData", "")
    ELSE Then(data_attribute(A, defined),
              LAMBDA d :
                 AllThen(Comprehension(A.rows, A.cols,
                            LAMBDA row, col :
                               not_and(list_item(d, row, col),
                                       list_item(B.data, row, col))),
                         LAMBDA vs : New(Rows(A.rows, A.cols, vs))))

elementwise_NOT(A, defined) ==
    Then(data_attribute(A, defined),
         LAMBDA d :
            IF ~is_boolean_matrix(A) THEN Raise("InvalidData", "")
            ELSE AllThen(Comprehension(A.rows, A.cols,
                            LAMBDA i, j : call(A, i, j)),
                         LAMBDA vs :
                            New(Rows(A.rows, A.cols,
                                     [k \in 1..Len(vs) |-> PyNot(vs[k])]))))

augment(A, B) ==
    Then(validate_other_type(B),
         LAMBDA v :
            IF A.rows # B.rows THEN Raise("InvalidDimensions", "")
            ELSE New([i \in 1..A.rows |->
                        [j \in 1..(A.cols + B.cols) |->
                            IF j <= A.cols THEN getitem(A, i, j).val
                            ELSE getitem(B, i, j - A.cols).val]]))

\* A | B
or(A, B, defined) ==
    IF is_boolean_matrix(A) /\ is_boolean_matrix(B)
    THEN elementwise_OR(A, B, defined)
    ELSE augment(A, B)

\* A & B
and(A, B, defined) == elementwise_AND(A, B, defined)

BoolVals == {PyBool(FALSE), PyBool(TRUE), PyInt(1)}

\* whether the run has a data attribute on Matrix
DataDefined == BOOLEAN

ElementwiseOR ==
    /\ pc = "init"
    /\ \E defined \in DataDefined :
          /\ args' = [NoArgs EXCEPT !.k = IF defined THEN 1 ELSE 0]
          /\ res' = elementwise_OR(recv, other, defined)
    /\ pc' = "elementwise_OR"
    /\ UNCHANGED <<recv, other>>
    /\ HeapUnchanged

ElementwiseAND ==
    /\ pc = "init"
    /\ \E defined \in DataDefined :
          /\ args' = [NoArgs EXCEPT !.k = IF defined THEN 1 ELSE 0]
          /\ res' = elementwise_AND(recv, other, defined)
    /\ pc' = "elementwise_AND"
    /\ UNCHANGED <<recv, other>>
    /\ HeapUnchanged

ElementwiseNOT ==
    /\ pc = "init"
    /\ \E defined \in DataDefined :
          /\ args' = [NoArgs EXCEPT !.k = IF defined THEN 1 ELSE 0]
          /\ res' = elementwise_NOT(recv, defined)
    /\ pc' = "elementwise_NOT"
    /\ UNCHANGED <<recv, other>>
    /\ HeapUnchanged

Or ==
    /\ pc = "init"
    /\ \E defined \in DataDefined :
          /\ args' = [NoArgs EXCEPT !.k = IF defined THEN 1 ELSE 0]
          /\ res' = or(recv, other, defined)
    /\ pc' = "__or__"
    /\ UNCHANGED <<recv, other>>
    /\ HeapUnchanged

And ==
    /\ pc = "init"
    /\ \E defined \in DataDefined :
          /\ args' = [NoArgs EXCEPT !.k = IF defined THEN 1 ELSE 0]
          /\ res' = and(recv, other, defined)
    /\ pc' = "__and__"
    /\ UNCHANGED <<recv, other>>
    /\ HeapUnchanged

InitBool ==
    /\ IsMatrixOver(recv, MaxDim, BoolVals)
    /\ IsMatrixOver(other, MaxDim, BoolVals)
    /\ InitRest

NextBool == ElementwiseOR \/ ElementwiseAND \/ ElementwiseNOT \/ Or \/ And

SpecBool == InitBool /\ [][NextBool]_vars

OrOps == {"elementwise_OR", "__or__"}

AndOps == {"elementwise_AND", "__and__"}

\* res is the matrix of the shape of recv whose entry (i,j) is the bool f(i,j)
IsBooleanMatrixOf(f(_, _)) ==
    /\ res.ok
    /\ res.val.rows = recv.rows
    /\ res.val.cols = recv.cols
    /\ \A i \in 1..recv.rows :
         \A j \in 1..recv.cols : res.val.data[i][j] = PyBool(f(i, j))

RaisesKind(kind) == ~res.ok /\ res.err = kind

\* C17: for boolean matrices A and B of identical shape elementwise_OR(A, B)
\* and A | B return the matrix of A[i,j] \/ B[i,j], elementwise_AND(A, B) and
\* A & B the matrix of A[i,j] /\ B[i,j], and elementwise_NOT(A) the matrix of
\* ~A[i,j]; operands of different shape raise InvalidDimensions and an operand
\* with a non-boolean entry raises InvalidData.
C17_BooleanAlgebra ==
    /\ (pc \in OrOps /\ is_boolean_matrix(recv) /\ is_boolean_matrix(other)
           /\ have_same_size(recv, other)) =>
          IsBooleanMatrixOf(LAMBDA i, j : Truthy(recv.data[i][j])
                                            \/ Truthy(other.data[i][j]))
    /\ (pc \in AndOps /\ is_boolean_matrix(recv) /\ is_boolean_matrix(other)
           /\ have_same_size(recv, other)) =>
          IsBooleanMatrixOf(LAMBDA i, j : Truthy(recv.data[i][j])
                                            /\ Truthy(other.data[i][j]))
    /\ (pc = "elementwise_NOT" /\ is_boolean_matrix(recv)) =>
          IsBooleanMatrixOf(LAMBDA i, j : ~Truthy(recv.data[i][j]))
    /\ (pc \in OrOps \cup AndOps /\ is_boolean_matrix(recv)
           /\ is_boolean_matrix(other) /\ ~have_same_size(recv, other)) =>
          RaisesKind("InvalidDimensions")
    /\ (pc \in OrOps \cup AndOps /\ have_same_size(recv, other)
           /\ (~is_boolean_matrix(recv) \/ ~is_boolean_matrix(other))) =>
          RaisesKind("InvalidData")
    /\ (pc = "elementwise_NOT" /\ ~is_boolean_matrix(recv)) =>
          RaisesKind("InvalidData")

\* what the code does instead: operands of identical shape are rejected with
\* InvalidDimensions by elementwise_OR and elementwise_AND, whatever their
\* entries; A | B with a non-boolean operand of as many rows is augment(A, B)
C17_SameShapeIsRejected ==
    /\ (pc \in {"elementwise_OR"} \cup AndOps /\ have_same_size(recv, other)) =>
          RaisesKind("InvalidDimensions")
    /\ (pc = "__or__" /\ is_boolean_matrix(recv) /\ is_boolean_matrix(other)
           /\ have_same_size(recv, other)) => RaisesKind("InvalidDimensions")
    /\ (pc = "__or__" /\ recv.rows = other.rows
           /\ (~is_boolean_matrix(recv) \/ ~is_boolean_matrix(other))) =>
          (res.ok /\ res.val.cols = recv.cols + other.cols)

\* the part of C17 that holds when Matrix has the data attribute:
\* elementwise_NOT
C17_NotWithDataAttribute ==
    (pc = "elementwise_NOT" /\ args.k = 1) =>
        IF is_boolean_matrix(recv)
        THEN IsBooleanMatrixOf(LAMBDA i, j : ~Truthy(recv.data[i][j]))
        ELSE RaisesKind("InvalidData")

(***************************************************************************)
(* DunderMixin.__getitem__ (src/matrixlib) with a range on an axis:        *)
(* M[rs, cs].  A bound of a range is an int or None.                       *)
(***************************************************************************)
None == [none |-> TRUE, int |-> 0]

Bound(n) == [none |-> FALSE, int |-> n]

\* slice(start, stop, step) and a plain int as the key of one axis
Slice(start, stop, step) ==
    [slice |-> TRUE, index |-> 0, start |-> start, stop |-> stop, step |-> step]

Index(i) ==
    [slice |-> FALSE, index |-> i, start |-> None, stop |-> None, step |-> None]

\* x if x is not None else default
OrDefault(x, default) == IF x.none THEN default ELSE x.int

\* b if b > 0 else extent + 1 + b
FromEnd(b, extent) == IF b > 0 THEN b ELSE extent + 1 + b

\* list(range(start, stop, step))
py_range(start, stop, step) ==
    IF step = 0 THEN Raise("ValueError", "")
    ELSE IF step > 0
    THEN Ok([k \in 1..((stop - start + step - 1) \div step) |->
                start + (k - 1) * step])
    ELSE Ok([k \in 1..((start - stop - step - 1) \div (-step)) |->
                start + (k - 1) * step])

\* the indices a key selects on one axis, the bounds of a range normalized
\* against extent
axis_indices(key, extent) ==
    IF key.slice
    THEN py_range(FromEnd(OrDefault(key.start, 1), extent),
                  FromEnd(OrDefault(key.stop, extent + 1), extent),
                  OrDefault(key.step, 1))
    ELSE Ok(<<key.index>>)

\* M[key.row, key.col]: both axes are normalized against self.cols
getitem_key(M, key) ==
    IF ~key.row.slice /\ ~key.col.slice
    THEN getitem(M, key.row.index, key.col.index)
    ELSE Then(axis_indices(key.row, M.cols),
              LAMBDA rows :
                 Then(axis_indices(key.col, M.cols),
                      LAMBDA cols : submatrix(M, rows, cols)))

MaxSliceDim == 3

\* the r x c matrix whose entry (i,j) is 10*i + j: no two entries are equal
Grid(r, c) == Mat([i \in 1..r |-> [j \in 1..c |-> 10 * i + j]])

SliceBounds == {None} \cup {Bound(n) : n \in (-1)..(MaxSliceDim + 1)}

SliceSteps == {None, Bound(-1), Bound(2)}

AxisKeys ==
    {Slice(a, b, s) : a \in SliceBounds, b \in SliceBounds, s \in SliceSteps}
       \cup {Index(i) : i \in 0..(MaxSliceDim + 1)}

NoKey == [row |-> Index(0), col |-> Index(0)]

GetItemKey ==
    /\ pc = "init"
    /\ \E row \in AxisKeys, col \in AxisKeys :
          /\ other' = [row |-> row, col |-> col]
          /\ res' = getitem_key(recv, [row |-> row, col |-> col])
    /\ pc' = "getitem.key"
    /\ args' = NoArgs
    /\ UNCHANGED recv
    /\ HeapUnchanged

InitSlice ==
    /\ \E r \in 1..MaxSliceDim, c \in 1..MaxSliceDim : recv = Grid(r, c)
    /\ other = NoKey
    /\ InitRest

NextSlice == GetItemKey

SpecSlice == InitSlice /\ [][NextSlice]_vars

\* the indices the key of the row axis and of the column axis denote when
\* each is normalized against its own extent
RowsOfKey == axis_indices(other.row, recv.rows)

ColsOfKey == axis_indices(other.col, recv.cols)

IsRangeKey == pc = "getitem.key" /\ (other.row.slice \/ other.col.slice)

\* an axis key denoting a non-empty list of indices within the extent
InRangeAxis(ix, extent) ==
    /\ ix.ok
    /\ ix.val # <<>>
    /\ \A k \in 1..Len(ix.val) : ix.val[k] \in 1..extent

Ascending(key) == ~key.slice \/ OrDefault(key.step, 1) > 0

\* the matrix of the entries of recv at rows x cols, in that order
SelectionOf(rows, cols) ==
    [rows |-> Len(rows), cols |-> Len(cols),
     data |-> [r \in 1..Len(rows) |->
                 [c \in 1..Len(cols) |-> recv.data[rows[r]][cols[c]]]]]

IsSelectionOfKey ==
    res.ok /\ res.val = SelectionOf(RowsOfKey.val, ColsOfKey.val)

FullRange == Slice(None, None, None)

\* C18: in M[rs, cs] on a matrix of shape r x c, r # c included, each axis is
\* normalized against its own extent (omitted row bounds are 1 and r+1, a
\* non-positive row bound b is r+1+b; column bounds use c), so an ascending
\* in-range selection returns exactly the rows and columns it denotes; hence
\* M[:, :] equals M and M[:, j] is all r rows of column j.
C18_AxisNormalizedAgainstOwnExtent ==
    /\ (IsRangeKey /\ Ascending(other.row) /\ Ascending(other.col)
           /\ InRangeAxis(RowsOfKey, recv.rows)
           /\ InRangeAxis(ColsOfKey, recv.cols)) => IsSelectionOfKey
    /\ (IsRangeKey /\ other.row = FullRange /\ other.col = FullRange) =>
          (res.ok /\ res.val = recv)
    /\ (IsRangeKey /\ other.row = FullRange /\ ~other.col.slice
           /\ other.col.index \in 1..recv.cols) =>
          (res.ok /\ res.val.rows = recv.rows /\ res.val.cols = 1)

\* the part of C18 the code satisfies: on square matrices
C18_HoldsOnSquare ==
    IsSquare(recv) => C18_AxisNormalizedAgainstOwnExtent

\* on every shape the row axis is normalized against the column count
C18_RowsNormalizedAgainstCols ==
    (IsRangeKey /\ other.row = FullRange /\ other.col = FullRange) =>
        IF recv.rows < recv.cols THEN RaisesKind("IndexOutOfBounds")
        ELSE res.ok /\ res.val.rows = recv.cols

Descending(key) == key.slice /\ OrDefault(key.step, 1) < 0

\* C19: range selection returns the selected rows and columns in selection
\* order: for every in-range descending range on an axis the result lists
\* those rows/columns in descending index order (the row range 3:1:-1 is row
\* 3 followed by row 2) and has as many rows/columns as the range has
\* elements.
C19_SelectionOrder ==
    (IsRangeKey /\ (Descending(other.row) \/ Descending(other.col))
        /\ InRangeAxis(RowsOfKey, recv.rows)
        /\ InRangeAxis(ColsOfKey, recv.cols)
        /\ IsSquare(recv)) => IsSelectionOfKey

\* what the code returns for a descending range: the rows and columns in
\* ascending index order
C19_ResultIsSorted ==
    (IsRangeKey /\ res.ok) =>
        /\ \A r \in 1..(res.val.rows - 1) :
              res.val.data[r][1] < res.val.data[r + 1][1]
        /\ \A c \in 1..(res.val.cols - 1) :
              res.val.data[1][c] < res.val.data[1][c + 1]

\* the example of C19: M[3:1:-1, :] on a 3 x 3 matrix is row 2 then row 3
C19_Example ==
    (IsRangeKey /\ recv = Grid(3, 3) /\ other.col = FullRange
        /\ other.row = Slice(Bound(3), Bound(1), Bound(-1))) =>
       (res.ok /\ res.val.data = <<recv.data[2], recv.data[3]>>)

(***************************************************************************)
(* The call form M(i, j) of both DunderMixin revisions next to the bracket *)
(* form M[i, j].                                                           *)
(***************************************************************************)
\* src/matrixlib DunderMixin.__call__
call_matrixlib(M, i, j) == getitem(M, i + 1, j + 1)

Call ==
    /\ pc = "init"
    /\ \E i \in Indices, j \in Indices :
          /\ args' = [NoArgs EXCEPT !.i = i, !.j = j]
          /\ res' = call_matrixlib(recv, i, j)
    /\ pc' = "call.matrixlib"
    /\ UNCHANGED <<recv, other>>
    /\ HeapUnchanged

CallMyLib ==
    /\ pc = "init"
    /\ \E i \in Indices, j \in Indices :
          /\ args' = [NoArgs EXCEPT !.i = i, !.j = j]
          /\ res' = call(recv, i, j)
    /\ pc' = "call.my_matrix_lib"
    /\ UNCHANGED <<recv, other>>
    /\ HeapUnchanged

NextCall == Call \/ CallMyLib \/ GetItem \/ GetItemMyLib

SpecCall == InitIndex /\ [][NextCall]_vars

CallOps == {"call.matrixlib", "call.my_matrix_lib"}

\* C20: every public element-access form is 1-based: the call form M(i,j) and
\* the bracket form M[i,j] address the same entry, (1,1) is the top-left
\* entry in both, and index 0 on either axis is rejected with
\* IndexOutOfBounds by both.
C20_CallAndBracketAreOneBased ==
    /\ pc \in CallOps \cup GetOps =>
          IF InRange(recv, args.i, args.j)
          THEN res = Ok(recv.data[args.i][args.j])
          ELSE RaisesKind("IndexOutOfBounds")
    /\ (pc \in CallOps \cup GetOps /\ (args.i = 0 \/ args.j = 0)) =>
          RaisesKind("IndexOutOfBounds")

\* the part of C20 the code satisfies: the bracket form
C20_BracketIsOneBased ==
    pc \in GetOps =>
        IF InRange(recv, args.i, args.j)
        THEN res = Ok(recv.data[args.i][args.j])
        ELSE RaisesKind("IndexOutOfBounds")

\* the call form is 0-based: M(i, j) is M[i+1, j+1], so M(0, 0) is the
\* top-left entry and M(rows, cols) is out of bounds
C20_CallIsZeroBased ==
    pc \in CallOps =>
        IF InRange(recv, args.i + 1, args.j + 1)
        THEN res = Ok(recv.data[args.i + 1][args.j + 1])
        ELSE RaisesKind("IndexOutOfBounds")

(***************************************************************************)
(* MatrixFactoryMixin (src/my_matrix_lib): zeros, ones, matrix_unit.  A    *)
(* size argument is an int, a float of integral value, or None.            *)
(***************************************************************************)
IntArg(n) == [type |-> "int", int |-> n]

FloatArg(n) == [type |-> "float", int |-> n]

NoneArg == [type |-> "NoneType", int |-> 0]

\* the matrix cls([[entry for j in range(m)] for i in range(n)])
Filled(n, m, entry) == New([i \in 1..n |-> [j \in 1..m |-> entry]])

\* the checks zeros and ones share; `m is not None or m <= 0` is true for
\* every m that is given, and for m = None the comparison None <= 0 raises
\* TypeError
filled_factory(n, m, entry) ==
    IF n.type # "int" THEN Raise("InvalidData", "")
    ELSE IF m.type # "int" /\ m.type # "NoneType" THEN Raise("InvalidData", "")
    ELSE IF n.int <= 0 THEN Raise("InvalidValue", "")
    ELSE IF m.type # "NoneType" THEN Raise("InvalidValue", "")
    ELSE Then(Raise("TypeError", ""),
              LAMBDA v : Filled(n.int, n.int, entry))

zeros(n, m) == filled_factory(n, m, 0)

ones(n, m) == filled_factory(n, m, 1)

matrix_unit(i, j, n, m) ==
    Then(zeros(n, IF m.type = "NoneType" THEN n ELSE m),
         LAMBDA matrix :
            Then(setitem(matrix, i, j, 1),
                 LAMBDA v : Ok(Assigned(matrix, i, j, 1))))

SizeArgs ==
    {IntArg(n) : n \in (-1)..(MaxDim + 1)} \cup {FloatArg(MaxDim), NoneArg}

Zeros ==
    /\ pc = "init"
    /\ pc' = "zeros"
    /\ args' = NoArgs
    /\ res' = zeros(other.n, other.m)
    /\ UNCHANGED <<recv, other>>
    /\ HeapUnchanged

Ones ==
    /\ pc = "init"
    /\ pc' = "ones"
    /\ args' = NoArgs
    /\ res' = ones(other.n, other.m)
    /\ UNCHANGED <<recv, other>>
    /\ HeapUnchanged

MatrixUnit ==
    /\ pc = "init"
    /\ \E i \in Indices, j \in Indices :
          /\ args' = [NoArgs EXCEPT !.i = i, !.j = j]
          /\ res' = matrix_unit(i, j, other.n, other.m)
    /\ pc' = "matrix_unit"
    /\ UNCHANGED <<recv, other>>
    /\ HeapUnchanged

\* the sizes (n, m) a factory is called with; m = None is m omitted
InitFactory ==
    /\ recv = NoMatrix
    /\ other \in [n : SizeArgs \ {NoneArg}, m : SizeArgs]
    /\ InitRest

NextFactory == Zeros \/ Ones \/ MatrixUnit

SpecFactory == InitFactory /\ [][NextFactory]_vars

\* the column count the sizes denote
ColsOfSizes == IF other.m.type = "NoneType" THEN other.n.int ELSE other.m.int

ValidSizes ==
    /\ other.n.type = "int" /\ other.n.int >= 1
    /\ other.m.type = "int" => other.m.int >= 1
    /\ other.m.type # "float"

\* res is the n x m matrix with entry f(i, j) at (i, j)
IsFactoryMatrix(f(_, _)) ==
    /\ res.ok
    /\ res.val.rows = other.n.int
    /\ res.val.cols = ColsOfSizes
    /\ \A i \in 1..other.n.int :
         \A j \in 1..ColsOfSizes : res.val.data[i][j] = f(i, j)

\* C21: for n >= 1 and m >= 1 zeros(n, m) is the n x m matrix of 0 and
\* ones(n, m) the n x m matrix of 1, square with m omitted;
\* matrix_unit(i, j, n, m) is the n x m matrix with a single 1 at the 1-based
\* position (i, j); n <= 0 or m <= 0 raises InvalidValue and a non-integer
\* size InvalidData.
C21_FactoriesBuildTheMatrix ==
    /\ (pc = "zeros" /\ ValidSizes) => IsFactoryMatrix(LAMBDA i, j : 0)
    /\ (pc = "ones" /\ ValidSizes) => IsFactoryMatrix(LAMBDA i, j : 1)
    /\ (pc = "matrix_unit" /\ ValidSizes
           /\ args.i \in 1..other.n.int /\ args.j \in 1..ColsOfSizes) =>
          IsFactoryMatrix(LAMBDA i, j :
                             IF i = args.i /\ j = args.j THEN 1 ELSE 0)
    /\ (pc \in {"zeros", "ones", "matrix_unit"}
           /\ other.n.type = "int" /\ other.m.type # "float"
           /\ (other.n.int <= 0 \/ (other.m.type = "int" /\ other.m.int <= 0))) =>
          RaisesKind("InvalidValue")
    /\ (pc \in {"zeros", "ones", "matrix_unit"}
           /\ (other.n.type = "float" \/ other.m.type = "float")) =>
          RaisesKind("InvalidData")

\* what the code does: no call of zeros, ones or matrix_unit returns; valid
\* sizes raise InvalidValue when m is given and TypeError when m is omitted
\* (matrix_unit replaces an omitted m by n before it calls zeros)
C21_FactoriesAlwaysRaise ==
    /\ pc \in {"zeros", "ones", "matrix_unit"} => ~res.ok
    /\ (pc \in {"zeros", "ones"} /\ ValidSizes) =>
          IF other.m.type = "NoneType" THEN RaisesKind("TypeError")
          ELSE RaisesKind("InvalidValue")
    /\ (pc = "matrix_unit" /\ ValidSizes) => RaisesKind("InvalidValue")

\* the error part of C21 holds
C21_InvalidSizesAreRejected ==
    /\ (pc \in {"zeros", "ones", "matrix_unit"}
           /\ other.n.type = "int" /\ other.m.type # "float"
           /\ (other.n.int <= 0 \/ (other.m.type = "int" /\ other.m.int <= 0))) =>
          RaisesKind("InvalidValue")
    /\ (pc \in {"zeros", "ones", "matrix_unit"}
           /\ (other.n.type = "float" \/ other.m.type = "float")) =>
          RaisesKind("InvalidData")

(***************************************************************************)
(* The kinds of failure of public operations: row operations, indexing,    *)
(* zeros and A / s on one matrix and one pair of sizes.                    *)
(***************************************************************************)
\* src/matrixlib DunderMixin.__truediv__ with a scalar divisor:
\* A / s = A * (1/s); 1/0 raises ZeroDivisionError
truediv_scalar(A, s) ==
    IF s = 0 THEN Raise("ZeroDivisionError", "")
    ELSE scalar_multiplication_float(A, FracInv(FracOf(s)))

TrueDivScalar ==
    /\ pc = "init"
    /\ \E s \in RowFactors :
          /\ args' = [NoArgs EXCEPT !.k = s]
          /\ res' = truediv_scalar(recv, s)
    /\ pc' = "truediv.scalar"
    /\ UNCHANGED <<recv, other>>
    /\ HeapUnchanged

InitFail ==
    /\ IsMatrixOver(recv, MaxDim, RowVals)
    /\ other \in [n : SizeArgs \ {NoneArg}, m : SizeArgs]
    /\ InitRest

NextFail ==
    \/ RowSwitching \/ RowMultiplication \/ GetItem
    \/ Zeros \/ TrueDivScalar

SpecFail == InitFail /\ [][NextFail]_vars

\* C22: whenever a public Matrix operation fails (constructor, indexing,
\* factories, row operations, arithmetic methods and operators including
\* A / s) the failure is one of the seven taxonomy kinds and never any other
\* error type.
C22_FailuresAreTaxonomyKinds ==
    (pc # "init" /\ ~res.ok) => res.err \in MatrixErrorKinds

\* the failures outside the taxonomy: row_multiplication with k = 0 raises
\* ValueError, zeros with m omitted TypeError, A / 0 ZeroDivisionError
C22_ForeignFailures ==
    (pc # "init" /\ ~res.ok /\ res.err \notin MatrixErrorKinds) =>
        \/ pc = "row_multiplication.matrixlib" /\ args.k = 0
              /\ res.err = "ValueError"
        \/ pc = "zeros" /\ other.m = NoneArg /\ res.err = "TypeError"
        \/ pc = "truediv.scalar" /\ args.k = 0
              /\ res.err = "ZeroDivisionError"

\* the part of C22 the code satisfies: indexing and row switching
C22_IndexingFailsWithinTaxonomy ==
    (pc \in {"getitem.matrixlib", "row_switching"} /\ ~res.ok) =>
        res.err \in MatrixErrorKinds

(***************************************************************************)
(* minor(rows, cols) on every matrix of at most MaxDetDim rows and columns *)
(* and every pair of index lists of at most two indices.                   *)
(***************************************************************************)
IndexLists == SeqsUpTo(1..(MaxDetDim + 1), 2)

NoLists == [rows |-> <<>>, cols |-> <<>>]

\* other keeps the two lists of the call
Minor ==
    /\ pc = "init"
    /\ \E rows \in IndexLists, cols \in IndexLists :
          /\ other' = [rows |-> rows, cols |-> cols]
          /\ res' = minor(recv, rows, cols)
    /\ pc' = "minor"
    /\ args' = NoArgs
    /\ UNCHANGED recv
    /\ HeapUnchanged

InitMinor ==
    /\ IsMatrixOver(recv, MaxDetDim, DetVals)
    /\ other = NoLists
    /\ InitRest

NextMinor == Minor

SpecMinor == InitMinor /\ [][NextMinor]_vars

HasRepeatedIndex(s) == \E k, l \in 1..Len(s) : k # l /\ s[k] = s[l]

\* a non-empty, duplicate-free list of indices of 1..extent
ValidExclusion(s, extent) ==
    /\ s # <<>>
    /\ ~HasRepeatedIndex(s)
    /\ \A k \in 1..Len(s) : s[k] \in 1..extent

\* recv without the rows and columns listed in other
Remaining ==
    [rows |-> recv.rows - Cardinality(SeqSet(other.rows)),
     cols |-> recv.cols - Cardinality(SeqSet(other.cols)),
     data |-> [r \in 1..(recv.rows - Cardinality(SeqSet(other.rows))) |->
                 [c \in 1..(recv.cols - Cardinality(SeqSet(other.cols))) |->
                    recv.data[RangeWithout(recv.rows, other.rows)[r]]
                             [RangeWithout(recv.cols, other.cols)[c]]]]]

\* C24: minor(rows, cols) returns the determinant of the submatrix obtained
\* by deleting the listed rows and columns when both lists are non-empty,
\* duplicate-free and in range, and raises whenever either list is empty or
\* contains a repeated index.
C24_MinorDeletesOrRejects ==
    /\ (pc = "minor" /\ ValidExclusion(other.rows, recv.rows)
           /\ ValidExclusion(other.cols, recv.cols)
           /\ Remaining.rows = Remaining.cols /\ Remaining.rows >= 1) =>
          res = Ok(Leibniz(Remaining))
    /\ (pc = "minor" /\ (other.rows = <<>> \/ other.cols = <<>>)) => ~res.ok
    /\ (pc = "minor"
           /\ (HasRepeatedIndex(other.rows) \/ HasRepeatedIndex(other.cols))) =>
          ~res.ok

\* the part of C24 the code satisfies: valid lists and empty lists
C24_MinorOfValidLists ==
    /\ (pc = "minor" /\ ValidExclusion(other.rows, recv.rows)
           /\ ValidExclusion(other.cols, recv.cols)
           /\ Remaining.rows = Remaining.cols /\ Remaining.rows >= 1) =>
          res = Ok(Leibniz(Remaining))
    /\ (pc = "minor" /\ (other.rows = <<>> \/ other.cols = <<>>)) =>
          RaisesKind("InvalidData")

\* a repeated index is accepted: the lists are used as sets
C24_RepeatedIndexIsAccepted ==
    (pc = "minor" /\ other.rows # <<>> /\ other.cols # <<>>
        /\ SeqSet(other.rows) \subseteq 1..recv.rows
        /\ SeqSet(other.cols) \subseteq 1..recv.cols
        /\ Remaining.rows = Remaining.cols /\ Remaining.rows >= 1) =>
       res = Ok(Leibniz(Remaining))

(***************************************************************************)
(* MathNamespace (src/matrixlib): exp, log and arcosh with a term count.   *)
(***************************************************************************)
RECURSIVE fact(_)
fact(n) == IF n = 0 THEN 1 ELSE n * fact(n - 1)

\* sum(term(n) for n in range(terms)): 0 + the first term adds 0 to every
\* entry, the further terms are added entry by entry; the first term that
\* raises ends the sum
series_sum(rs) ==
    AllThen(rs,
            LAMBDA ms :
               New([i \in 1..ms[1].rows |->
                      [j \in 1..ms[1].cols |->
                         FracSum([k \in 1..Len(ms) |-> ms[k].data[i][j]])]]))

\* sum(M**n / _fact(n) for n in range(terms))
exp(M, terms) ==
    IF ~IsSquare(M) THEN Raise("NotSquare", "")
    ELSE series_sum([k \in 1..terms |->
            Then(matrix_exponentiation(M, k - 1),
                 LAMBDA P : truediv_scalar(P, fact(k - 1)))])

\* sum((-1)**(n+1) * M**n / n for n in range(terms)): the term n = 0 divides
\* by 0
log(M, terms) ==
    IF ~IsSquare(M) THEN Raise("NotSquare", "")
    ELSE series_sum([k \in 1..terms |->
            Then(matrix_exponentiation(M, k - 1),
                 LAMBDA P :
                    truediv_scalar(
                       Mat([i \in 1..P.rows |->
                              [j \in 1..P.cols |->
                                 MinusOnePow(k) * P.data[i][j]]]),
                       k - 1))])

\* (M*2).math.log(terms) - sum(... / (4**n * _fact(n)**2 * (2*n)) ...): the
\* logarithm is evaluated first; the term n = 0 of the sum divides by 0
arcosh(M, terms) ==
    IF ~IsSquare(M) THEN Raise("NotSquare", "")
    ELSE Then(log(Mat([i \in 1..M.rows |->
                         [j \in 1..M.cols |-> 2 * M.data[i][j]]]), terms),
              LAMBDA L : Raise("ZeroDivisionError", ""))

MaxTerms == 3

Exp ==
    /\ pc = "init"
    /\ \E terms \in 1..MaxTerms :
          /\ args' = [NoArgs EXCEPT !.k = terms]
          /\ res' = exp(recv, terms)
    /\ pc' = "math.exp"
    /\ UNCHANGED <<recv, other>>
    /\ HeapUnchanged

Log ==
    /\ pc = "init"
    /\ \E terms \in 1..MaxTerms :
          /\ args' = [NoArgs EXCEPT !.k = terms]
          /\ res' = log(recv, terms)
    /\ pc' = "math.log"
    /\ UNCHANGED <<recv, other>>
    /\ HeapUnchanged

Arcosh ==
    /\ pc = "init"
    /\ \E terms \in 1..MaxTerms :
          /\ args' = [NoArgs EXCEPT !.k = terms]
          /\ res' = arcosh(recv, terms)
    /\ pc' = "math.arcosh"
    /\ UNCHANGED <<recv, other>>
    /\ HeapUnchanged

InitMath ==
    /\ IsMatrixOver(recv, MaxDim, PowVals)
    /\ other = NoMatrix
    /\ InitRest

NextMath == Exp \/ Log \/ Arcosh

SpecMath == InitMath /\ [][NextMath]_vars

MathOps == {"math.exp", "math.log", "math.arcosh"}

\* the sum of M^n / n! over n = 0 .. N-1, entry (i, j)
ExpEntry(i, j) ==
    FracSum([k \in 1..args.k |->
                FracMul(Frac(1, fact(k - 1)),
                        PowerOf(ToFloat(recv), k - 1).data[i][j])])

\* C25: for every square matrix M and term count N >= 1 each power-series
\* function of the math namespace completes and returns a Matrix of M's
\* shape (no term has a zero denominator); exp(M) is the sum of M^n / n!
\* over n = 0..N-1, so exp of the zero matrix is the identity.
C25_PowerSeriesComplete ==
    /\ (pc \in MathOps /\ IsSquare(recv)) =>
          (res.ok /\ res.val.rows = recv.rows /\ res.val.cols = recv.cols)
    /\ (pc = "math.exp" /\ IsSquare(recv)) =>
          /\ res.ok
          /\ \A i \in 1..recv.rows :
               \A j \in 1..recv.cols : res.val.data[i][j] = ExpEntry(i, j)

\* the part of C25 the code satisfies: exp
C25_ExpIsTheSeries ==
    /\ (pc = "math.exp" /\ IsSquare(recv)) =>
          /\ res.ok
          /\ res.val.rows = recv.rows /\ res.val.cols = recv.cols
          /\ \A i \in 1..recv.rows :
               \A j \in 1..recv.cols : res.val.data[i][j] = ExpEntry(i, j)
    /\ (pc = "math.exp" /\ IsSquare(recv)
           /\ \A i \in 1..recv.rows : \A j \in 1..recv.cols : recv.data[i][j] = 0) =>
          res.val = identity_float(recv.rows)

\* log and arcosh divide by n = 0 in their first term
C25_LogDividesByZero ==
    (pc \in {"math.log", "math.arcosh"} /\ IsSquare(recv)) =>
        RaisesKind("ZeroDivisionError")

(***************************************************************************)
(* Calls made by several threads on shared matrices.  Every variable that  *)
(* is local to a call is a function over the threads here: pc[t] is where  *)
(* thread t is in its call, args[t] its arguments (h the handle of the     *)
(* receiver, k the object it constructs, j the entries _round_off has      *)
(* visited, i = 1 when another thread was inside a call during this call), *)
(* other[t] the entries its comprehension has computed so far, recv[t] the *)
(* result the call returns when it runs alone on the matrix as it was when *)
(* the call began, res[t] what the call returned.  store, objs and handles *)
(* are the heap the threads share; ext is the set of the threads that have *)
(* performed an element assignment.  The interpreter may switch threads    *)
(* between any two reads of an entry and between any two statements.       *)
(***************************************************************************)
Threads == {"t1", "t2"}
MaxCalls == 2

\* GlobalsMixin._eps = 1e-8, as 1 / eps_reciprocal
eps_reciprocal == 100000000

\* the float 1.00000001, which _round_off rounds to 1
NearOne == [num |-> 100000001, den |-> 100000000]

\* the shared matrix the threads start with: distinct entries, floats
ThreadGrid(m, n) ==
    [rows |-> m, cols |-> n,
     data |-> [i \in 1..m |->
                 [j \in 1..n |-> IF i = j THEN NearOne ELSE FracOf(10 * i + j)]]]

\* round(x) of a float: to the nearest integer, a tie to the even one
py_round(x) ==
    LET q == x.num \div x.den
        rem == x.num - q * x.den
    IN  IF 2 * rem < x.den THEN q
        ELSE IF 2 * rem > x.den THEN q + 1
        ELSE IF q % 2 = 0 THEN q ELSE q + 1

\* _round_off: abs(round(x) - x) <= eps
round_off_applies(x) ==
    Abs(py_round(x) * x.den - x.num) <= x.den \div eps_reciprocal

\* scalar_multiplication: [[scalar * self[row, col] ...] ...]
scalar_multiplication_entries(M, s) ==
    New([r \in 1..M.rows |-> [c \in 1..M.cols |-> FracMul(s, M.data[r][c])]])

\* a row_switching that swaps the two row lists of the receiver and returns it
heap_row_switching_in_place(st, o, i, j) ==
    [store |-> [st EXCEPT ![o.data[i]] = st[o.data[j]],
                          ![o.data[j]] = st[o.data[i]]],
     obj   |-> o]

\* row_switching on the heap: the rows i and j are passed as they are, the
\* others as copies, and the constructor copies all of them into new lists
heap_row_switching(st, o, i, j) ==
    heap_init(st, [idx \in 1..o.rows |->
                      IF idx = j THEN RowOf(st, o.data[i])
                      ELSE IF idx = i THEN RowOf(st, o.data[j])
                      ELSE TempRow(st[o.data[idx]])])

MidCall(t) == pc[t] \notin {"idle", "returned"}

Overlapped(t) == \E u \in Threads \ {t} : MidCall(u)

Mark(t, a) == [a EXCEPT !.i = IF Overlapped(t) THEN 1 ELSE a.i]

CanStart(t) == pc[t] \in {"idle", "returned"} /\ steps < MaxCalls

EntriesOf(o) == o.rows * o.cols

\* thread t calls A.scalar_multiplication(2)
ThreadScalarMultiplication ==
    \E t \in Threads, h \in 1..Len(handles) :
       /\ CanStart(t)
       /\ pc' = [pc EXCEPT ![t] = "scalar_multiplication"]
       /\ args' = [args EXCEPT ![t] = Mark(t, [NoArgs EXCEPT !.h = h])]
       /\ other' = [other EXCEPT ![t] = <<>>]
       /\ recv' = [recv EXCEPT ![t] =
                      scalar_multiplication_entries(ContentOf(h), FracOf(2))]
       /\ res' = [res EXCEPT ![t] = NoRes]
       /\ steps' = steps + 1
       /\ UNCHANGED <<store, objs, handles, ext>>

\* the comprehension of scalar_multiplication reads one entry, self[row, col]
ThreadReadEntry ==
    \E t \in Threads :
       /\ pc[t] = "scalar_multiplication"
       /\ LET o == objs[handles[args[t].h]]
              n == Len(other[t])
          IN /\ n < EntriesOf(o)
             /\ other' = [other EXCEPT ![t] =
                   Append(@, FracMul(FracOf(2),
                                     store[o.data[(n \div o.cols) + 1]][(n % o.cols) + 1]))]
       /\ args' = [args EXCEPT ![t] = Mark(t, @)]
       /\ UNCHANGED <<pc, recv, res, store, objs, handles, ext, steps>>

\* Matrix.__init__ of the result: _rows, _cols and _shape are set
ThreadInitFields ==
    \E t \in Threads :
       /\ pc[t] = "scalar_multiplication"
       /\ LET o == objs[handles[args[t].h]]
          IN /\ Len(other[t]) = EntriesOf(o)
             /\ objs' = Append(objs, [rows |-> o.rows, cols |-> o.cols, data |-> <<>>])
       /\ args' = [args EXCEPT ![t] = Mark(t, [@ EXCEPT !.k = Len(objs) + 1])]
       /\ pc' = [pc EXCEPT ![t] = "__init__"]
       /\ UNCHANGED <<recv, other, res, store, handles, ext, steps>>

\* Matrix.__init__ of the result: self._data = [row[:] for row in data]
ThreadInitData ==
    \E t \in Threads :
       /\ pc[t] = "__init__"
       /\ LET id == args[t].k
              o == objs[id]
              made == heap_init(store,
                         [r \in 1..o.rows |->
                            TempRow([c \in 1..o.cols |-> other[t][(r - 1) * o.cols + c]])])
          IN /\ store' = made.store
             /\ objs' = [objs EXCEPT ![id] = made.obj]
       /\ args' = [args EXCEPT ![t] = Mark(t, @)]
       /\ pc' = [pc EXCEPT ![t] = "return"]
       /\ UNCHANGED <<recv, other, res, handles, ext, steps>>

\* the call returns the Matrix it constructed: the caller binds it, and from
\* here on the other threads can call operations on it
ThreadReturn ==
    \E t \in Threads :
       /\ pc[t] = "return"
       /\ handles' = Append(handles, args[t].k)
       /\ res' = [res EXCEPT ![t] = Ok(Content(store, objs[args[t].k]))]
       /\ args' = [args EXCEPT ![t] = Mark(t, @)]
       /\ pc' = [pc EXCEPT ![t] = "returned"]
       /\ UNCHANGED <<recv, other, store, objs, ext, steps>>

\* thread t calls A.row_switching(i, j): the list of rows and the copies
\* the constructor makes of them are whole-list operations
ThreadRowSwitching ==
    \E t \in Threads, h \in 1..Len(handles) :
       /\ CanStart(t)
       /\ LET o == objs[handles[h]]
          IN \E i \in 1..o.rows, j \in 1..o.rows :
                LET made == heap_row_switching(store, o, i, j)
                IN /\ store' = made.store
                   /\ objs' = Append(objs, made.obj)
                   /\ recv' = [recv EXCEPT ![t] = row_switching(ContentOf(h), i, j)]
       /\ args' = [args EXCEPT ![t] =
                      Mark(t, [NoArgs EXCEPT !.h = h, !.k = Len(objs) + 1])]
       /\ other' = [other EXCEPT ![t] = <<>>]
       /\ res' = [res EXCEPT ![t] = NoRes]
       /\ pc' = [pc EXCEPT ![t] = "return"]
       /\ steps' = steps + 1
       /\ UNCHANGED <<handles, ext>>

\* thread t performs A[i, j] = 7.0
ThreadSetItem ==
    \E t \in Threads, h \in 1..Len(handles) :
       /\ CanStart(t)
       /\ LET o == objs[handles[h]]
          IN \E i \in 1..o.rows, j \in 1..o.cols :
                store' = [store EXCEPT ![o.data[i]][j] = FracOf(7)]
       /\ ext' = ext \cup {t}
       /\ args' = [args EXCEPT ![t] = Mark(t, [NoArgs EXCEPT !.h = h])]
       /\ other' = [other EXCEPT ![t] = <<>>]
       /\ recv' = [recv EXCEPT ![t] = Ok(0)]
       /\ res' = [res EXCEPT ![t] = Ok(0)]
       /\ pc' = [pc EXCEPT ![t] = "returned"]
       /\ steps' = steps + 1
       /\ UNCHANGED <<objs, handles>>

\* thread t calls A._round_off()
ThreadRoundOff ==
    \E t \in Threads, h \in 1..Len(handles) :
       /\ CanStart(t)
       /\ pc' = [pc EXCEPT ![t] = "_round_off"]
       /\ args' = [args EXCEPT ![t] = Mark(t, [NoArgs EXCEPT !.h = h])]
       /\ other' = [other EXCEPT ![t] = <<>>]
       /\ recv' = [recv EXCEPT ![t] = Ok(0)]
       /\ res' = [res EXCEPT ![t] = NoRes]
       /\ steps' = steps + 1
       /\ UNCHANGED <<store, objs, handles, ext>>

\* _round_off visits one entry: self[i, j] = int(round(self[i, j])) when the
\* entry is within eps of an integer
ThreadRoundOffEntry ==
    \E t \in Threads :
       /\ pc[t] = "_round_off"
       /\ LET o == objs[handles[args[t].h]]
              n == args[t].j
              r == o.data[(n \div o.cols) + 1]
              c == (n % o.cols) + 1
          IN /\ n < EntriesOf(o)
             /\ IF round_off_applies(store[r][c])
                THEN /\ store' = [store EXCEPT ![r][c] = FracOf(py_round(@))]
                     /\ ext' = ext \cup {t}
                ELSE UNCHANGED <<store, ext>>
       /\ args' = [args EXCEPT ![t] = Mark(t, [@ EXCEPT !.j = @ + 1])]
       /\ UNCHANGED <<pc, recv, other, res, objs, handles, steps>>

\* _round_off has visited every entry and returns None
ThreadRoundOffReturn ==
    \E t \in Threads :
       /\ pc[t] = "_round_off"
       /\ args[t].j = EntriesOf(objs[handles[args[t].h]])
       /\ res' = [res EXCEPT ![t] = Ok(0)]
       /\ args' = [args EXCEPT ![t] = Mark(t, @)]
       /\ pc' = [pc EXCEPT ![t] = "returned"]
       /\ UNCHANGED <<recv, other, store, objs, handles, ext, steps>>

\* one Matrix is shared by the threads when they start
InitThreads ==
    /\ \E m \in Dims, n \in Dims :
          LET made == heap_init(<<>>, [r \in 1..m |-> TempRow(ThreadGrid(m, n).data[r])])
          IN /\ store = made.store
             /\ objs = <<made.obj>>
    /\ handles = <<1>>
    /\ pc = [t \in Threads |-> "idle"]
    /\ args = [t \in Threads |-> NoArgs]
    /\ other = [t \in Threads |-> <<>>]
    /\ recv = [t \in Threads |-> NoRes]
    /\ res = [t \in Threads |-> NoRes]
    /\ ext = {}
    /\ steps = 0

NextThreads ==
    \/ ThreadScalarMultiplication
    \/ ThreadReadEntry
    \/ ThreadInitFields
    \/ ThreadInitData
    \/ ThreadReturn
    \/ ThreadRowSwitching
    \/ ThreadSetItem
    \/ ThreadRoundOff
    \/ ThreadRoundOffEntry
    \/ ThreadRoundOffReturn

SpecThreads == InitThreads /\ [][NextThreads]_vars

\* the Matrix a handle is bound to has all its fields
FullyConstructed(h) == Len(objs[handles[h]].data) = objs[handles[h]].rows

\* C26: under every interleaving of the calls the threads make on the
\* shared matrices, as long as no thread has performed an element
\* assignment, every call that returned has returned the result it returns
\* when run alone and no step changes the content of a shared Matrix; every
\* Matrix a thread can reach is fully constructed.
C26_ConcurrentCallsAreIsolated ==
    /\ [](/\ \A h \in 1..Len(handles) : FullyConstructed(h)
          /\ ext = {} => \A t \in Threads :
                            pc[t] = "returned" => res[t] = recv[t])
    /\ [][ext' = {} =>
             \A h \in 1..Len(handles) :
                Content(store', objs'[handles[h]]) = Content(store, objs[handles[h]])]_vars

\* a call returned a Matrix although another thread was inside a call of its
\* own meanwhile, and still is, and no thread has assigned an element
C26_OverlappedCallReturned ==
    /\ ext = {}
    /\ \E t \in Threads :
          /\ pc[t] = "returned"
          /\ args[t].i = 1
          /\ args[t].k > 0
          /\ res[t] = Ok(Content(store, objs[args[t].k]))
          /\ Overlapped(t)

(***************************************************************************)
(* The pivots of reduced_row_echelon_form.                                 *)
(***************************************************************************)
RECURSIVE RrefPivots(_, _, _)
\* the columns for which the loop of reduced_row_echelon_form sets
\* find_pivot, in the order it finds them: the k-th one has pivot row k
RrefPivots(M, j, pivot) ==
    IF j > M.cols THEN <<>>
    ELSE IF PivotRow(M, j, pivot) = 0 THEN RrefPivots(M, j + 1, pivot)
    ELSE LET E == Then(row_switching(M, PivotRow(M, j, pivot), pivot), LAMBDA S :
                  Then(row_multiplication_float(S, pivot, FracInv(S.data[pivot][j])),
                       LAMBDA P : Eliminate(P, 1, pivot, j)))
         IN  IF E.ok THEN <<j>> \o RrefPivots(E.val, j + 1, pivot + 1) ELSE <<j>>

\* the square matrix of the rows R and the columns C of M
SquareOf(M, R, C) ==
    [rows |-> Cardinality(R), cols |-> Cardinality(C),
     data |-> [r \in 1..Cardinality(R) |->
                 [c \in 1..Cardinality(C) |->
                    M.data[SortedSeq(R)[r]][SortedSeq(C)[c]]]]]

\* the rank of an integer matrix: the size of its largest square submatrix
\* with a determinant other than 0
HasMinorOfSize(M, k) ==
    \E R \in SUBSET (1..M.rows), C \in SUBSET (1..M.cols) :
       /\ Cardinality(R) = k
       /\ Cardinality(C) = k
       /\ Leibniz(SquareOf(M, R, C)) # 0

RankOf(M) ==
    IF \A k \in 1..M.rows : ~HasMinorOfSize(M, k) THEN 0
    ELSE CHOOSE k \in 1..M.rows :
            /\ HasMinorOfSize(M, k)
            /\ \A l \in (k + 1)..M.rows : ~HasMinorOfSize(M, l)

\* the result is reduced at the pivots the run found
ReducedAtPivots(pivots) ==
    /\ res.ok
    /\ \A p \in 1..Len(pivots) :
          /\ p <= recv.rows
          /\ \A q \in 1..(p - 1) : pivots[q] < pivots[p]
          /\ \A i \in 1..recv.rows :
                res.val.data[i][pivots[p]] = FracOf(IF i = p THEN 1 ELSE 0)
    /\ Len(pivots) = RankOf(recv)

\* C27: for every input matrix, whenever reduced_row_echelon_form finds a
\* pivot for column j at pivot row p, the returned matrix has entry 1 at
\* (p, j) and entry 0 at (i, j) for every other row i, the pivot rows are
\* 1, 2, ... in increasing column order, and the number of pivots equals
\* the rank of the input.
C27_RrefPivots ==
    pc = "rref" => ReducedAtPivots(RrefPivots(ToFloat(recv), 1, 1))

\* on a matrix whose rows are linearly independent the result is reduced at
\* the pivots and there are as many pivots as rows
C27_PivotsOfIndependentRows ==
    (pc = "rref" /\ RankOf(recv) = recv.rows)
    => ReducedAtPivots(RrefPivots(ToFloat(recv), 1, 1))

\* on [[1], [1]] the pivot row equals the row that is eliminated, row_addition
\* replaces both, and the pivot entry of the result is 0
C27_EqualRowsLoseThePivot ==
    (pc = "rref" /\ recv = Mat(<< <<1>>, <<1>> >>))
    => res = Ok(ToFloat(Mat(<< <<0>>, <<0>> >>)))

(***************************************************************************)
(* The recursion of matrix_exponentiation and of determinant, one frame at *)
(* a step.  recv is the receiver of the outermost call and ext its         *)
(* exponent, a fraction (an int has denominator 1); other holds the        *)
(* receiver and the exponent of the innermost frame, steps the number of   *)
(* recursive calls below the outermost one, res the outcome once the       *)
(* recursion has ended.  The receivers have determinant -1, 0 or 1, so     *)
(* every inverse has whole entries and is kept as an integer matrix.       *)
(***************************************************************************)
RecursionLimit == 6

RecurVals == {0, 1}

Exponents ==
    {FracOf(k) : k \in (-MaxExp)..MaxExp} \cup {Frac(1, 2), Frac(-1, 2), Frac(3, 2)}

\* what a frame does: it ends the recursion with an outcome, or it calls
\* the function again on a receiver with an exponent
Return(r) == [call |-> FALSE, self |-> NoMatrix, exponent |-> FracOf(0), out |-> r]
Recurse(M, e) == [call |-> TRUE, self |-> M, exponent |-> e, out |-> NoRes]

\* a float matrix with whole entries, as an integer matrix
IntOf(F) ==
    [rows |-> F.rows, cols |-> F.cols,
     data |-> [r \in 1..F.rows |-> [c \in 1..F.cols |-> F.data[r][c].num]]]

\* the call is made on the value r when computing r raised nothing
RecurseOn(r, e) == IF r.ok THEN Recurse(r.val, e) ELSE Return(r)

\* self.inv
inv_of(M) == Then(inverse_matrix(M), LAMBDA F : Ok(IntOf(F)))

\* src/matrixlib matrix_exponentiation, one frame
exp_frame_matrixlib(M, exponent) ==
    IF ~IsSquare(M) THEN Return(Raise("NotSquare", ""))
    ELSE IF exponent.den # 1 THEN Return(Raise("InvalidData", ""))
    ELSE IF exponent.num < 0
    THEN RecurseOn(inv_of(M), FracNeg(exponent))
    ELSE IF exponent.num = 0 THEN Return(identity(M.rows))
    ELSE Recurse(M, FracAdd(exponent, FracOf(-1)))

\* src/my_matrix_lib matrix_exponentiation, one frame: the test
\* "if not isinstance(n, int): pass" rejects nothing
exp_frame_mylib(M, n) ==
    IF ~IsSquare(M) THEN Return(Raise("NotSquare", ""))
    ELSE IF n.num < 0 THEN RecurseOn(inv_of(M), FracNeg(n))
    ELSE IF n.num = 0 THEN Return(identity(M.rows))
    ELSE Recurse(M, FracAdd(n, FracOf(-1)))

\* determinant, one frame: the term for column j of the Laplace expansion
\* calls determinant on the matrix without row 1 and column j
det_frame(M, j) ==
    IF ~IsSquare(M) THEN Return(Raise("NotSquare", ""))
    ELSE IF M.rows = 1 THEN Return(getitem(M, 1, 1))
    ELSE RecurseOn(submatrix(M, RangeWithout(M.rows, <<1>>),
                                RangeWithout(M.cols, <<j>>)), FracOf(0))

ExpOps == {"matrix_exponentiation.matrixlib", "matrix_exponentiation.my_matrix_lib"}

Running == ~res.ok /\ res.err = "NotCalled"

\* what the outermost call returns once the innermost frame has returned
TopResult ==
    IF pc = "determinant" THEN determinant(recv)
    ELSE matrix_exponentiation(recv, ext.num)

\* the outermost call A.matrix_exponentiation(e) of each revision
CallExponentiation ==
    /\ pc = "init"
    /\ pc' \in ExpOps
    /\ \E e \in Exponents :
          /\ ext' = e
          /\ other' = [self |-> recv, exponent |-> e]
    /\ steps' = 0
    /\ UNCHANGED <<recv, args, res, store, objs, handles>>

\* the outermost call A.determinant()
CallDeterminant ==
    /\ pc = "init"
    /\ pc' = "determinant"
    /\ ext' = FracOf(0)
    /\ other' = [self |-> recv, exponent |-> FracOf(0)]
    /\ steps' = 0
    /\ UNCHANGED <<recv, args, res, store, objs, handles>>

\* the innermost frame runs: it ends the recursion, or it makes the next
\* call, which the interpreter refuses beyond its recursion limit
RunFrame(f) ==
    /\ IF ~f.call
       THEN /\ res' = (IF f.out.ok THEN TopResult ELSE f.out)
            /\ UNCHANGED <<other, steps>>
       ELSE IF steps = RecursionLimit
       THEN /\ res' = Raise("RecursionError", "")
            /\ UNCHANGED <<other, steps>>
       ELSE /\ other' = [self |-> f.self, exponent |-> f.exponent]
            /\ steps' = steps + 1
            /\ UNCHANGED res
    /\ UNCHANGED <<pc, recv, args, ext, store, objs, handles>>

FrameMatrixlib ==
    /\ pc = "matrix_exponentiation.matrixlib"
    /\ Running
    /\ RunFrame(exp_frame_matrixlib(other.self, other.exponent))

FrameMyLib ==
    /\ pc = "matrix_exponentiation.my_matrix_lib"
    /\ Running
    /\ RunFrame(exp_frame_mylib(other.self, other.exponent))

FrameDeterminant ==
    /\ pc = "determinant"
    /\ Running
    /\ \E j \in 1..other.self.cols :
          RunFrame(det_frame(other.self, j))

InitRecur ==
    /\ IsMatrixOver(recv, MaxDim, RecurVals)
    /\ IsSquare(recv) => Leibniz(recv) \in {-1, 0, 1}
    /\ other = [self |-> NoMatrix, exponent |-> FracOf(0)]
    /\ ext = FracOf(0)
    /\ pc = "init"
    /\ args = NoArgs
    /\ res = NoRes
    /\ store = <<>>
    /\ objs = <<>>
    /\ handles = <<>>
    /\ steps = 0

NextRecur ==
    \/ CallExponentiation
    \/ CallDeterminant
    \/ FrameMatrixlib
    \/ FrameMyLib
    \/ FrameDeterminant

SpecRecur == InitRecur /\ [][NextRecur]_vars

Rejected == ~Running /\ ~res.ok /\ res.err = "InvalidData"

\* C28: every call of the recursive algorithms terminates: determinant on
\* an n x n matrix recurses to depth at most n, and matrix_exponentiation,
\* in each revision and with any exponent, either rejects the exponent (a
\* non-integer one: InvalidData) or recurses to depth at most |k| + 1 and
\* returns; no exponent exhausts the recursion limit.
C28_RecursionIsBounded ==
    /\ pc = "determinant" => steps <= recv.rows
    /\ pc \in ExpOps =>
          /\ ~(~res.ok /\ res.err = "RecursionError")
          /\ IF ext.den = 1 THEN steps <= Abs(ext.num) + 1
             ELSE /\ steps = 0
                  /\ (~Running /\ IsSquare(recv)) => Rejected

\* determinant and the src/matrixlib revision of matrix_exponentiation keep
\* the bound, and the src/my_matrix_lib revision keeps it on every integer
C28_BoundedWhereTheExponentIsChecked ==
    (pc = "matrix_exponentiation.my_matrix_lib" => ext.den = 1)
    => C28_RecursionIsBounded

\* in src/my_matrix_lib a non-integer exponent is never rejected and the
\* call never returns a matrix: the recursion ends in an exception only
C28_NonIntegerExponentRecurses ==
    (pc = "matrix_exponentiation.my_matrix_lib" /\ ext.den # 1 /\ ~Running)
    => ~res.ok

\* on the 2 x 2 identity with exponent 1/2 the recursion of the
\* src/my_matrix_lib revision ends at the recursion limit
C28_IdentityToTheHalf ==
    (/\ pc = "matrix_exponentiation.my_matrix_lib"
     /\ recv = Mat(<< <<1, 0>>, <<0, 1>> >>)
     /\ ext = Frac(1, 2)
     /\ ~Running)
    => ~res.ok /\ res.err = "RecursionError" /\ steps = RecursionLimit

(***************************************************************************)
(* adjugate_matrix on every matrix of at most MaxDetDim rows and columns.  *)
(***************************************************************************)
AdjugateMatrix ==
    /\ pc = "init"
    /\ pc' = "adjugate_matrix"
    /\ args' = NoArgs
    /\ res' = adjugate_matrix(recv)
    /\ UNCHANGED <<recv, other>>
    /\ HeapUnchanged

CofactorMatrix ==
    /\ pc = "init"
    /\ pc' = "cofactor_matrix"
    /\ args' = NoArgs
    /\ res' = cofactor_matrix(recv)
    /\ UNCHANGED <<recv, other>>
    /\ HeapUnchanged

NextAdj == AdjugateMatrix \/ CofactorMatrix

SpecAdj == InitDet /\ [][NextAdj]_vars

\* (-1)^(i+j) times the determinant of M without row i and column j
CofactorOf(M, i, j) ==
    MinusOnePow(i + j) * Leibniz(SquareOf(M, (1..M.rows) \ {i}, (1..M.cols) \ {j}))

\* determinant(M) * identity(n)
ScaledIdentity(M) ==
    [rows |-> M.rows, cols |-> M.rows,
     data |-> [i \in 1..M.rows |->
                 [j \in 1..M.rows |-> IF i = j THEN Leibniz(M) ELSE 0]]]

\* the result is the transposed matrix of cofactors of recv and multiplies
\* with recv, on either side, to determinant * identity
IsAdjugateOfRecv ==
    /\ res.ok
    /\ res.val.rows = recv.rows
    /\ res.val.cols = recv.cols
    /\ \A i \in 1..recv.rows, j \in 1..recv.cols :
          res.val.data[i][j] = CofactorOf(recv, j, i)
    /\ ProductOf(recv, res.val) = ScaledIdentity(recv)
    /\ ProductOf(res.val, recv) = ScaledIdentity(recv)

\* C29: for every square integer matrix A of size n x n with 1 <= n <= 3,
\* adjugate_matrix(A) does not raise, is the transpose of the matrix of the
\* cofactors (-1)^(i+j) * firstMinor(i, j), and multiplies with A on either
\* side to determinant(A) * identity(n).
C29_Adjugate ==
    (pc = "adjugate_matrix" /\ IsSquare(recv)) => IsAdjugateOfRecv

\* the same for the sizes 2 and 3
C29_AdjugateFromSizeTwo ==
    (pc = "adjugate_matrix" /\ IsSquare(recv) /\ recv.rows >= 2) => IsAdjugateOfRecv

\* on a 1 x 1 matrix the only cofactor asks for a submatrix without rows,
\* and adjugate_matrix raises InvalidData
C29_AdjugateOfOneByOne ==
    (pc \in {"adjugate_matrix", "cofactor_matrix"} /\ recv.rows = 1 /\ recv.cols = 1)
    => RaisesKind("InvalidData")

(***************************************************************************)
(* The elementwise comparisons (src/matrixlib BooleanLogicMixin; the same  *)
(* text in src/mixins ElementwiseComparisonMixin).  ext holds _eps, the    *)
(* tolerance of the matrix type; other holds the right operand and the     *)
(* keyword argument tol, which is None or a number.                        *)
(***************************************************************************)
NoTol == [none |-> TRUE, val |-> FracOf(0)]
Tol(t) == [none |-> FALSE, val |-> t]

\* GlobalsMixin.eps(): return cls._eps, for the type of the receiver
eps == ext.own

\* the value _eps has in GlobalsMixin
DefaultEps == Frac(1, eps_reciprocal)

\* tol = type(self).eps() if tol is None else tol
tolerance(tol) == IF tol.none THEN eps ELSE tol.val

FracAbs(a) == [num |-> Abs(a.num), den |-> a.den]
FracLe(a, b) == a.num * b.den <= b.num * a.den
FracLt(a, b) == a.num * b.den < b.num * a.den

CmpOps ==
    {"elementwise_equal", "elementwise_not_equal", "elementwise_less_than",
     "elementwise_greater_than", "elementwise_less_than_or_equal",
     "elementwise_greater_than_or_equal"}

\* elementwise_less_than with self - other < tol for self - other < -tol
compare_entry_less_than_plus_tol(op, d, t) ==
    CASE op = "elementwise_equal" -> FracLe(FracAbs(d), t)
      [] op = "elementwise_not_equal" -> ~FracLe(FracAbs(d), t)
      [] op = "elementwise_less_than" -> FracLt(d, t)
      [] op = "elementwise_greater_than" -> FracLt(t, d)
      [] op = "elementwise_less_than_or_equal" -> FracLe(d, t)
      [] op = "elementwise_greater_than_or_equal" -> FracLe(FracNeg(t), d)

\* the test each comparison makes on d = self[i, j] - other[i, j]
compare_entry(op, d, t) ==
    CASE op = "elementwise_equal" -> FracLe(FracAbs(d), t)
      [] op = "elementwise_not_equal" -> ~FracLe(FracAbs(d), t)
      [] op = "elementwise_less_than" -> FracLt(d, FracNeg(t))
      [] op = "elementwise_greater_than" -> FracLt(t, d)
      [] op = "elementwise_less_than_or_equal" -> FracLe(d, t)
      [] op = "elementwise_greater_than_or_equal" -> FracLe(FracNeg(t), d)

\* the comparison named op: both validations, the tolerance, and the
\* Matrix of the booleans
elementwise_compare(A, B, op, tol) ==
    IF ~validate_other_type(B).ok THEN validate_other_type(B)
    ELSE IF ~validate_same_size(A, B).ok THEN validate_same_size(A, B)
    ELSE New([i \in 1..A.rows |->
                [j \in 1..A.cols |->
                    PyBool(compare_entry(op,
                               FracOf(getitem(A, i, j).val - getitem(B, i, j).val),
                               tolerance(tol)))]])

\* a left operand with the entries 1 and 2
LeftPattern(m, n, c) ==
    [rows |-> m, cols |-> n,
     data |-> [i \in 1..m |-> [j \in 1..n |-> 1 + ((c + i * j) % 2)]]]

\* a right operand with varied entries in 0..3
Pattern(m, n, c) ==
    [rows |-> m, cols |-> n,
     data |-> [i \in 1..m |-> [j \in 1..n |-> (c + i + 2 * j) % 4]]]

TolArgs == {NoTol, Tol(FracOf(0)), Tol(FracOf(1)), Tol(Frac(3, 2)), Tol(FracOf(-1))}

Compare(op) ==
    /\ pc = "init"
    /\ pc' = op
    /\ \E tol \in TolArgs :
          /\ other' = [other EXCEPT !.tol = tol]
          /\ res' = elementwise_compare(recv, other.matrix, op, tol)
    /\ UNCHANGED <<recv, args>>
    /\ HeapUnchanged

ElementwiseEqual == Compare("elementwise_equal")
ElementwiseNotEqual == Compare("elementwise_not_equal")
ElementwiseLessThan == Compare("elementwise_less_than")
ElementwiseGreaterThan == Compare("elementwise_greater_than")
ElementwiseLessThanOrEqual == Compare("elementwise_less_than_or_equal")
ElementwiseGreaterThanOrEqual == Compare("elementwise_greater_than_or_equal")

InitCmp ==
    /\ \E m \in Dims, n \in Dims, c \in 0..1 : recv = LeftPattern(m, n, c)
    /\ \E B \in {Pattern(recv.rows, recv.cols, c) : c \in 0..3}
                \cup {NotAMatrix, Pattern(recv.rows + 1, recv.cols, 0)} :
          other = [matrix |-> B, tol |-> NoTol]
    /\ ext = [own |-> DefaultEps, foreign |-> DefaultEps]
    /\ pc = "init"
    /\ args = NoArgs
    /\ res = NoRes
    /\ store = <<>>
    /\ objs = <<>>
    /\ handles = <<>>
    /\ steps = 0

NextCmp ==
    \/ ElementwiseEqual
    \/ ElementwiseNotEqual
    \/ ElementwiseLessThan
    \/ ElementwiseGreaterThan
    \/ ElementwiseLessThanOrEqual
    \/ ElementwiseGreaterThanOrEqual

SpecCmp == InitCmp /\ [][NextCmp]_vars

\* what the comparison named op returns on the operands and the tolerance of
\* the call made: the result of the call for the comparison that was called
ResultOf(op) ==
    IF pc = op THEN res
    ELSE elementwise_compare(recv, other.matrix, op, other.tol)

\* the results of the six comparisons on the operands of the call
Results == [op \in CmpOps |-> ResultOf(op)]

IsBooleanOfShape(r) ==
    /\ r.ok
    /\ r.val.rows = recv.rows
    /\ r.val.cols = recv.cols
    /\ is_boolean_matrix(r.val)

ComparableOperands ==
    /\ pc \in CmpOps
    /\ IsInstance(other.matrix)
    /\ have_same_size(recv, other.matrix)

NonNegativeTol == other.tol.none \/ other.tol.val.num >= 0

ExactlyOne(a, b, c) == (a /\ ~b /\ ~c) \/ (~a /\ b /\ ~c) \/ (~a /\ ~b /\ c)

PartitionIn(R) ==
    /\ \A op \in CmpOps : IsBooleanOfShape(R[op])
    /\ \A i \in 1..recv.rows, j \in 1..recv.cols :
          LET Holds(op) == Truthy(R[op].val.data[i][j])
          IN /\ ExactlyOne(Holds("elementwise_less_than"),
                           Holds("elementwise_equal"),
                           Holds("elementwise_greater_than"))
             /\ Holds("elementwise_not_equal") = ~Holds("elementwise_equal")
             /\ Holds("elementwise_less_than_or_equal")
                   = ~Holds("elementwise_greater_than")
             /\ Holds("elementwise_greater_than_or_equal")
                   = ~Holds("elementwise_less_than")
    /\ R["elementwise_less_than"]
          = elementwise_compare(other.matrix, recv, "elementwise_greater_than", other.tol)

ComparisonsPartition == PartitionIn(Results)

\* C30: for all same-shape matrices A, B and every tolerance tol >= 0 each
\* comparison returns a boolean matrix of the operands' shape; at every
\* position exactly one of less_than, equal, greater_than is true;
\* not_equal is the negation of equal, less_than_or_equal of greater_than,
\* greater_than_or_equal of less_than; less_than(A, B) = greater_than(B, A).
C30_ComparisonsPartition ==
    (ComparableOperands /\ NonNegativeTol) => ComparisonsPartition

\* less_than was called on same-shape operands with a tolerance of 1 and
\* returned a matrix with a True and a False entry
C30_LessThanCalled ==
    /\ pc = "elementwise_less_than"
    /\ ComparableOperands
    /\ other.tol = Tol(FracOf(1))
    /\ res.ok
    /\ \E i \in 1..recv.rows, j \in 1..recv.cols : Truthy(res.val.data[i][j])
    /\ \E i \in 1..recv.rows, j \in 1..recv.cols : ~Truthy(res.val.data[i][j])

(***************************************************************************)
(* The tolerance.  ext holds _eps of the type of the receiver (own) and of *)
(* another matrix type (foreign), each left at 1e-8 or overridden; the     *)
(* operations that decide by a threshold are called on the receiver.       *)
(***************************************************************************)
Tolerances == {DefaultEps, FracOf(2)}

TolVals == {0, 1}

\* the search of reduced_row_echelon_form for a pivot in column j from row
\* pivot on: the first i with abs(M[i,j]) >= self.eps(), or 0
pivot_search(M, j, pivot) ==
    IF \A i \in pivot..M.rows : FracLt(FracAbs(FracOf(M.data[i][j])), eps) THEN 0
    ELSE CHOOSE i \in pivot..M.rows :
            /\ ~FracLt(FracAbs(FracOf(M.data[i][j])), eps)
            /\ \A l \in pivot..(i - 1) : FracLt(FracAbs(FracOf(M.data[l][j])), eps)

FindPivot ==
    /\ pc = "init"
    /\ pc' = "reduced_row_echelon_form.pivot"
    /\ \E j \in 1..recv.cols, pivot \in 1..recv.rows :
          /\ args' = [NoArgs EXCEPT !.i = pivot, !.j = j]
          /\ res' = Ok(pivot_search(recv, j, pivot))
    /\ UNCHANGED <<recv, other>>
    /\ HeapUnchanged

InitTol ==
    /\ IsMatrixOver(recv, MaxDim, TolVals)
    /\ \E c \in 0..1 :
          other = [matrix |-> Pattern(recv.rows, recv.cols, c), tol |-> NoTol]
    /\ ext \in [own : Tolerances, foreign : Tolerances]
    /\ pc = "init"
    /\ args = NoArgs
    /\ res = NoRes
    /\ store = <<>>
    /\ objs = <<>>
    /\ handles = <<>>
    /\ steps = 0

NextTol ==
    \/ Inverse
    \/ RowMultiplication
    \/ FindPivot
    \/ ElementwiseEqual
    \/ ElementwiseNotEqual
    \/ ElementwiseLessThan
    \/ ElementwiseGreaterThan
    \/ ElementwiseLessThanOrEqual
    \/ ElementwiseGreaterThanOrEqual

SpecTol == InitTol /\ [][NextTol]_vars

\* abs(x) < e for an integer x and a tolerance e
Below(x, e) == FracLt(FracOf(Abs(x)), e)

\* the decisions of the four operations with e as the threshold
DecidesBy(e) ==
    /\ (pc = "inverse" /\ IsSquare(recv))
          => (RaisesKind("SingularMatrix") <=> Below(Leibniz(recv), e))
    /\ (pc = "row_multiplication.matrixlib" /\ args.i \in 1..recv.rows)
          => (~res.ok <=> Below(args.k, e))
    /\ pc = "reduced_row_echelon_form.pivot"
          => /\ res.ok
             /\ \A i \in args.i..recv.rows :
                   res.val = i <=> /\ ~Below(recv.data[i][args.j], e)
                                   /\ \A l \in args.i..(i - 1) :
                                         Below(recv.data[l][args.j], e)
    /\ (pc \in CmpOps /\ other.tol.none)
          => res = elementwise_compare(recv, other.matrix, pc, Tol(e))

\* C23: one configurable tolerance governs every threshold decision: with
\* the tolerance of the receiver's type overridden to e, inverse raises
\* SingularMatrix exactly when |determinant| < e, row scaling rejects
\* exactly the factors with |k| < e, reduction accepts a pivot by comparison
\* with e and comparisons default to e, whatever the tolerance of another
\* matrix type is.
C23_OneTolerance == DecidesBy(ext.own)

\* while the tolerance is left at 1e-8 the four operations decide by it
C23_DefaultTolerance == ext.own = DefaultEps => DecidesBy(ext.own)

\* inverse and row scaling decide by the literal 1e-8, whatever the
\* tolerance is; the pivot search and the comparisons decide by the tolerance
C23_LiteralsInInverseAndRowScaling ==
    /\ pc \in {"inverse", "row_multiplication.matrixlib"} => DecidesBy(DefaultEps)
    /\ pc \notin {"inverse", "row_multiplication.matrixlib"} => DecidesBy(ext.own)

====
